---- MODULE Spec2Model ----
(***************************************************************************)
(* Registration / payment / attendance consistency subsystem of            *)
(* flask_app.py: the lock table (get_file_lock), the JSON record store     *)
(* (safe_json_read, safe_json_write, _write_json_no_lock,                  *)
(* atomic_add_registration) and the request handlers that use it.          *)
(***************************************************************************)
EXTENDS Integers, Sequences, FiniteSets, TLC

VARIABLES
    file_locks,   \* _file_locks: the lock table, entries in insertion order
    heldLocks,    \* the lock objects that are currently locked
    nextLock,     \* identity of the next threading.Lock() object
    files,        \* the registration files on disk, by path
    backups,      \* the .backup sibling of each path
    req,          \* the request each worker thread serves
    pc,           \* each thread's position in its handler
    stage,        \* which record-store operation the thread is in
    tf,           \* the filepath of that operation
    lk,           \* the lock object get_file_lock returned to the thread
    regs,         \* the thread's local `registrations` list
    todo,         \* webhook: the files still to scan
    result,       \* what the thread's handler returned
    lockOrder,    \* history: threads in the order they acquired a lock
    nextUuid,     \* the next value uuid.uuid4() returns
    orders,       \* gateway: the orders created with the club's keys
    payments,     \* gateway: the payments made on those orders
    call,         \* history: the last request served, as received
    resp,         \* the response to it
    wrote,        \* history: whether serving it changed a registration file
    mail,         \* the confirmation email composed while serving it
    echoed,       \* history: the credentials handed out in registration_data
    event,        \* data/events.json: the event of the submissions
    today,        \* get_ist_now().date(), as a day number
    local_events, \* the thread's `events`, as load_events_file returned it
    wpc,          \* _write_json_no_lock: the writer's position
    wdata,        \* _write_json_no_lock: the list `data` being written
    tmp,          \* _write_json_no_lock: temp_path, once mkstemp returned
    old           \* history: the target file when the write began

storeVars == << file_locks, heldLocks, nextLock, req, pc, stage, tf, lk, regs,
                todo, result, lockOrder >>

payVars == << nextUuid, orders, payments, call, resp, wrote, mail, echoed,
             event, today, local_events >>

writeVars == << wpc, wdata, tmp, old >>

vars == << files, backups, storeVars, payVars, writeVars >>

----------------------------------------------------------------------------
(* Bounds of the model *)

\* worker threads serving one request each
NThreads == 3
\* paths, other than the event's file, that a request may name
MaxFresh == 1

(* Program constants *)

_MAX_FILE_LOCKS == 100

Threads == 1 .. NThreads
EventFile == 1
Paths == 1 .. (1 + MaxFresh)
\* the name tempfile.mkstemp picks in the directory of the registration files
TempName == 2 + MaxFresh
None == "None"

----------------------------------------------------------------------------
(* Strings: an email is its letters, their case pattern and surrounding    *)
(* whitespace; lower() and strip() act on the last two.                    *)

Email(name, caps, pad) == [name |-> name, caps |-> caps, pad |-> pad]

\* the empty string
NoEmail == Email("", FALSE, FALSE)

\* str.lower()
Lower(e) == [e EXCEPT !.caps = FALSE]

\* str.strip()
Strip(e) == [e EXCEPT !.pad = FALSE]

----------------------------------------------------------------------------
(* Registration records *)

\* attendance_comment: the admin's text, or f'{present}/{total} participants
\* present'
Comment(text, present, total) ==
    [text |-> text, present |-> present, total |-> total]

\* no attendance_comment yet
NoComment == Comment(None, 0, 0)

\* a record without participant_attendance reads as one with an empty list
\* (registration.get('participant_attendance', [])); entry_time 0 is none
Registration(cred, email, pstatus, pid, oid) ==
    [ id |-> 0, registration_id |-> cred, submitter_email |-> email,
      payment_status |-> pstatus, payment_id |-> pid, payment_order_id |-> oid,
      attendance_status |-> "not_entered", attendance_comment |-> NoComment,
      marked_by |-> None, participant_attendance |-> << >>, entry_time |-> 0 ]

\* an error message with its interpolated value; msg = None is Python's None
ErrorMsg(msg, arg) == [msg |-> msg, arg |-> arg]
NoError == ErrorMsg(None, NoEmail)

AbsentFile == [kind |-> "absent", data |-> << >>]
JsonFile(list) == [kind |-> "json", data |-> list]
\* a file whose bytes are not UTF-8 text
UndecodableFile == [kind |-> "undecodable", data |-> << >>]

\* json.load of a path inside atomic_add_registration: [] for a missing or
\* unparseable file
LoadOrEmpty(f) == IF f.kind = "json" THEN f.data ELSE << >>

----------------------------------------------------------------------------
(* get_file_lock *)

RECURSIVE ScanUnlocked(_, _, _, _)
\* the eviction loop: walk the entries in insertion order, collect the paths
\* whose lock is not locked, stop once fewer than MAX // 2 would remain
\* (a run of locked entries is passed over in one step: the loop does nothing
\* for them)
ScanUnlocked(tbl, i, to_remove, held) ==
    IF i > Len(tbl) THEN to_remove
    ELSE IF tbl[i].lock \notin held
         THEN LET r == to_remove \cup {tbl[i].path}
              IN  IF Len(tbl) - Cardinality(r) < _MAX_FILE_LOCKS \div 2
                  THEN r
                  ELSE ScanUnlocked(tbl, i + 1, r, held)
         ELSE LET unlocked == { j \in i + 1 .. Len(tbl) : tbl[j].lock \notin held }
              IN  IF unlocked = {} THEN to_remove
                  ELSE ScanUnlocked(tbl,
                           CHOOSE j \in unlocked : \A k \in unlocked : j <= k,
                           to_remove, held)

InTable(tbl, filepath) == \E i \in 1 .. Len(tbl) : tbl[i].path = filepath

LockOf(tbl, filepath) ==
    LET i == CHOOSE j \in 1 .. Len(tbl) : tbl[j].path = filepath
    IN  tbl[i].lock

Entry(path, lock) == [lock |-> lock, path |-> path]

\* the table after the cleanup that precedes an insertion
Evict(tbl, held) ==
    IF Len(tbl) >= _MAX_FILE_LOCKS
    THEN LET to_remove == ScanUnlocked(tbl, 1, {}, held)
         IN  SelectSeq(tbl, LAMBDA e : e.path \notin to_remove)
    ELSE tbl

\* a get_file_lock that stores a new Lock object on every call
TableAlwaysNewLock(tbl, filepath, held, fresh) ==
    Append(SelectSeq(Evict(tbl, held), LAMBDA e : e.path # filepath),
           Entry(filepath, fresh))

\* the table after get_file_lock(filepath); `fresh` is the new Lock object
TableAfterGet(tbl, filepath, held, fresh) ==
    IF InTable(tbl, filepath) THEN tbl
    ELSE Append(Evict(tbl, held), Entry(filepath, fresh))

----------------------------------------------------------------------------
(* _write_json_no_lock, as seen by other readers of the disk: the backup   *)
(* copy, then the rename of the complete temp file onto the target         *)

BackupAfterWrite(f, b) == IF f.kind # "absent" THEN f ELSE b

----------------------------------------------------------------------------
(* api_register_event.check_duplicates *)

RECURSIVE FirstWithEmail(_, _, _)
FirstWithEmail(registrations, i, e) ==
    IF i > Len(registrations) THEN 0
    ELSE IF Lower(Strip(registrations[i].submitter_email)) = e THEN i
         ELSE FirstWithEmail(registrations, i + 1, e)

\* a check_duplicates that compares the emails as typed
check_duplicates_exact(registrations, new_reg) ==
    IF \E i \in 1 .. Len(registrations) :
           registrations[i].submitter_email = new_reg.submitter_email
    THEN ErrorMsg("Email already registered", new_reg.submitter_email)
    ELSE NoError

check_duplicates(registrations, new_reg) ==
    LET submitter_email == Lower(Strip(new_reg.submitter_email))
    IN  IF submitter_email # NoEmail
           /\ FirstWithEmail(registrations, 1, submitter_email) # 0
        THEN ErrorMsg("Email already registered", submitter_email)
        ELSE NoError

(* payment_verify.check_payment_duplicates *)

RECURSIVE check_payment_scan(_, _, _, _)
check_payment_scan(registrations, i, new_reg, razorpay_payment_id) ==
    IF i > Len(registrations) THEN NoError
    ELSE IF registrations[i].payment_id = razorpay_payment_id
         THEN ErrorMsg("Payment already processed", NoEmail)
         ELSE IF Lower(registrations[i].submitter_email)
                    = Lower(new_reg.submitter_email)
              THEN ErrorMsg("Email already registered", NoEmail)
              ELSE check_payment_scan(registrations, i + 1, new_reg,
                                      razorpay_payment_id)

\* a check that looks at the email alone
check_payment_email_only(registrations, new_reg) ==
    IF \E i \in 1 .. Len(registrations) :
           Lower(registrations[i].submitter_email)
               = Lower(new_reg.submitter_email)
    THEN ErrorMsg("Email already registered", NoEmail)
    ELSE NoError

\* a check that looks at the payment id alone
check_payment_id_only(registrations, new_reg) ==
    IF \E i \in 1 .. Len(registrations) :
           registrations[i].payment_id = new_reg.payment_id
    THEN ErrorMsg("Payment already processed", NoEmail)
    ELSE NoError

check_payment_duplicates(registrations, new_reg) ==
    check_payment_scan(registrations, 1, new_reg, new_reg.payment_id)

\* the unique_check_fn each caller passes to atomic_add_registration
unique_check_fn(kind, registrations, new_reg) ==
    IF kind = "payment" THEN check_payment_duplicates(registrations, new_reg)
    ELSE check_duplicates(registrations, new_reg)

----------------------------------------------------------------------------
(* atomic_add_registration, the part under the lock after the read *)

AssignId(registrations, new_registration) ==
    [new_registration EXCEPT !.id = Len(registrations) + 1]

\* (success, error_msg, registrations)
\* an atomic_add_registration that appends before it looks at the conflict
AddOutcomeAppendFirst(kind, registrations, new_registration) ==
    [ registrations |->
          Append(registrations, AssignId(registrations, new_registration)),
      success |-> unique_check_fn(kind, registrations, new_registration)
                      = NoError,
      error_msg |-> unique_check_fn(kind, registrations, new_registration) ]

AddOutcome(kind, registrations, new_registration) ==
    LET error_msg == unique_check_fn(kind, registrations, new_registration)
    IN  IF error_msg # NoError
        THEN [registrations |-> registrations, success |-> FALSE,
              error_msg |-> error_msg]
        ELSE [registrations |->
                  Append(registrations, AssignId(registrations, new_registration)),
              success |-> TRUE, error_msg |-> NoError]

----------------------------------------------------------------------------
(* safe_json_read: the list the caller gets *)

safe_json_read(f, b) ==
    IF f.kind = "absent" THEN << >>
    ELSE IF f.kind = "json" THEN f.data
         ELSE IF b.kind = "json" THEN b.data ELSE << >>

\* the except clause names json.JSONDecodeError and IOError: the
\* UnicodeDecodeError of a file that is not UTF-8 text is neither, and
\* leaves safe_json_read through the with block
read_raises(f) == f.kind = "undecodable"

----------------------------------------------------------------------------
(* admin_mark_entry / api_admin_mark_entry: the loop over registrations *)

\* a scan that is satisfied with the credential
entry_matches_credential(reg, regid, email) == reg.registration_id = regid

\* reg.get('registration_id') == regid
\*     and reg.get('submitter_email', '').lower() == email.lower()
entry_matches(reg, regid, email) ==
    /\ reg.registration_id = regid
    /\ Lower(reg.submitter_email) = Lower(email)

RECURSIVE FindEntry(_, _, _, _)
\* index of the first record whose credential and email both match, or 0
FindEntry(registrations, i, regid, email) ==
    IF i > Len(registrations) THEN 0
    ELSE IF entry_matches(registrations[i], regid, email)
         THEN i
         ELSE FindEntry(registrations, i + 1, regid, email)

\* legacy mode: full or partial attendance
MarkedStatus(attendance_type) ==
    IF attendance_type = "partial" THEN "partially_present" ELSE "entered"

\* a marking that builds the record anew from its credential and email
MarkRecordRebuilt(reg, attendance_type, attendance_comment, marked_by) ==
    [Registration(reg.registration_id, reg.submitter_email, "not_required",
                  0, 0)
        EXCEPT !.attendance_status = MarkedStatus(attendance_type),
               !.attendance_comment = attendance_comment,
               !.marked_by = marked_by]

MarkRecord(reg, attendance_type, attendance_comment, marked_by) ==
    [reg EXCEPT !.attendance_status = MarkedStatus(attendance_type),
                !.attendance_comment = attendance_comment,
                !.marked_by = marked_by]

\* present = sum(1 for p in participant_attendance if p)
CountPresent(participant_attendance) ==
    Cardinality({ i \in DOMAIN participant_attendance :
                    participant_attendance[i] })

\* a status that calls an array without a true flag not entered
ParticipantStatusNoneFirst(present, total) ==
    IF present = 0 THEN "not_entered"
    ELSE IF present = total THEN "entered"
    ELSE "partially_present"

\* the overall status of a participant array
ParticipantStatus(present, total) ==
    IF present = total THEN "entered"
    ELSE IF present > 0 THEN "partially_present"
    ELSE "not_entered"

\* participant-based attendance (checkboxes)
MarkParticipants(reg, participant_attendance, marked_by) ==
    LET total == Len(participant_attendance)
        present == CountPresent(participant_attendance)
    IN  [reg EXCEPT !.participant_attendance = participant_attendance,
                    !.attendance_status = ParticipantStatus(present, total),
                    !.attendance_comment =
                        Comment("participants present", present, total),
                    !.marked_by = marked_by]

\* what the request carries as participant_attendance: nothing, or an array
Flags(sent, flags) == [sent |-> sent, flags |-> flags]
NoFlags == Flags(FALSE, << >>)

\* admin_mark_entry tests the JSON text of the form field, which is not
\* empty for the array []; api_admin_mark_entry tests the parsed list,
\* which is false for []
participants_mode(endpoint, attendance_type, participant_attendance) ==
    /\ attendance_type = "participants"
    /\ participant_attendance.sent
    /\ endpoint = "api" => participant_attendance.flags # << >>

\* a marking that leaves a record alone once it says entered
MarkEntrySticky(r, reg, now) ==
    IF reg.attendance_status = "entered" THEN [reg EXCEPT !.entry_time = now]
    ELSE [ (IF participants_mode(r.endpoint, r.attendance_type,
                                 r.participant_attendance)
            THEN MarkParticipants(reg, r.participant_attendance.flags, "admin")
            ELSE MarkRecord(reg, r.attendance_type,
                            Comment(r.attendance_comment, 0, 0), "admin"))
           EXCEPT !.entry_time = now ]

\* the body of the loop for the matching record, for request r at time now
MarkEntry(r, reg, now) ==
    [ (IF participants_mode(r.endpoint, r.attendance_type,
                            r.participant_attendance)
       THEN MarkParticipants(reg, r.participant_attendance.flags, "admin")
       ELSE MarkRecord(reg, r.attendance_type,
                       Comment(r.attendance_comment, 0, 0), "admin"))
      EXCEPT !.entry_time = now ]

(* payment_webhook: the loop over one file's registrations *)

RECURSIVE FindOrder(_, _, _)
FindOrder(registrations, i, order_id) ==
    IF i > Len(registrations) THEN 0
    ELSE IF registrations[i].payment_order_id = order_id THEN i
         ELSE FindOrder(registrations, i + 1, order_id)

WebhookRecord(reg, event_type, payment_id) ==
    IF event_type = "payment.captured"
    THEN [reg EXCEPT !.payment_status = "completed", !.payment_id = payment_id]
    ELSE [reg EXCEPT !.payment_status = "failed"]

----------------------------------------------------------------------------
(* Requests *)

NoReg == Registration(0, NoEmail, None, 0, 0)

\* hmac.new(webhook_secret.encode(), webhook_body, hashlib.sha256).hexdigest()
\* of a notification's body
BodyHmac(key, event_type, order_id, payment_id) ==
    << key, event_type, order_id, payment_id >>

\* request.headers.get('X-Razorpay-Signature') of a request without one
NoSignature == BodyHmac(None, None, 0, 0)

\* os.environ.get('RAZORPAY_WEBHOOK_SECRET') when it is set
RAZORPAY_WEBHOOK_SECRET == "webhook_secret"

Request(kind, file, new, regid, email, atype, event_type, order_id, pid) ==
    [ email |-> email, payment_id |-> pid, attendance_comment |-> "",
      participant_attendance |-> NoFlags, kind |-> kind, regid |-> regid,
      attendance_type |-> atype, endpoint |-> "form",
      order_id |-> order_id, event_type |-> event_type, file |-> file,
      new |-> new, gateway |-> FALSE, qr_code |-> FALSE,
      webhook_secret |-> RAZORPAY_WEBHOOK_SECRET,
      webhook_signature |-> NoSignature, event_id |-> 0, event_slug |-> 0 ]

\* api_register_event reaching its no-payment commit; the credential is a
\* fresh uuid4, here the thread's own number
RegisterReq(t, file, email) ==
    Request("register", file,
            Registration(10 + t, email, "not_required", 0, 0),
            0, NoEmail, None, None, 0, 0)

MarkReq(regid, email, attendance_type) ==
    Request("mark", EventFile, NoReg, regid, email, attendance_type, None, 0, 0)

\* a marking in 'participants' mode through /admin/mark-entry ("form") or
\* /api/admin/mark-entry ("api")
MarkFlagsReq(endpoint, regid, email, flags) ==
    [MarkReq(regid, email, "participants")
        EXCEPT !.endpoint = endpoint,
               !.participant_attendance = Flags(TRUE, flags)]

\* api_attendance_check: registration_id and email of the JSON body
CheckReq(regid, email) ==
    Request("check", EventFile, NoReg, regid, email, None, None, 0, 0)

\* payment_verify reaching its commit, the checks of the payment passed
VerifyReq(t, email, payment_id) ==
    Request("verify", EventFile,
            Registration(10 + t, email, "completed", payment_id, payment_id),
            0, NoEmail, None, None, 0, 0)

\* a handler that calls the payment gateway before any record-store call
\* (api_register_event for a paid template, payment_verify from its step 2),
\* and whose generate_qr_code returned an image, so that it sends the mail
WithGateway(r) == [r EXCEPT !.gateway = TRUE, !.qr_code = TRUE]

\* a no-payment submission whose confirmation mail is sent
WithMail(r) == [r EXCEPT !.qr_code = TRUE]

\* a notification sent by the gateway, which signs the body with the secret
WebhookReq(event_type, order_id, payment_id) ==
    [ Request("webhook", EventFile, NoReg, 0, NoEmail, None, event_type,
              order_id, payment_id)
      EXCEPT !.webhook_signature =
                 BodyHmac(RAZORPAY_WEBHOOK_SECRET, event_type, order_id,
                          payment_id) ]

\* the same body with the header signature sig
SignedWith(r, sig) == [r EXCEPT !.webhook_signature = sig]

\* the same request reaching a server without RAZORPAY_WEBHOOK_SECRET
NotConfigured(r) == [r EXCEPT !.webhook_secret = None]

\* payment_webhook, lines 1387-1405: the checks before the body is used
webhook_verdict(r) ==
    IF r.webhook_secret = None THEN "Webhook not configured"
    ELSE IF r.webhook_signature
              # BodyHmac(r.webhook_secret, r.event_type, r.order_id,
                         r.payment_id)
         THEN "Invalid signature"
    ELSE "ok"

\* HTTP status and body of the handler's response
Response(status, error, details, registration_id) ==
    [ registration_id |-> registration_id, status |-> status, error |-> error,
      details |-> details ]

NoResponse == Response(0, None, NoError, 0)

----------------------------------------------------------------------------
(* Worker threads *)

\* threading.Lock.locked()
locked(lock, held) == lock \in held

\* os.listdir of the registrations directory
ListDir(disk) ==
    LET RECURSIVE Walk(_)
        Walk(p) == IF p > 1 + MaxFresh THEN << >>
                   ELSE IF disk[p].kind # "absent" THEN << p >> \o Walk(p + 1)
                        ELSE Walk(p + 1)
    IN  Walk(1)

\* the handler starts: the first record-store call it makes
Begin(t) ==
    /\ pc[t] = "start"
    /\ req[t].kind # "check"
    /\ ~ req[t].gateway
    /\ req[t].event_id = 0
    /\ IF req[t].kind = "webhook" /\ webhook_verdict(req[t]) # "ok"
       THEN /\ pc' = [pc EXCEPT ![t] = "done"]
            /\ result' = [result EXCEPT ![t] =
                  Response(IF webhook_verdict(req[t]) = "Invalid signature"
                           THEN 400 ELSE 500,
                           webhook_verdict(req[t]), NoError, 0)]
            /\ UNCHANGED << stage, tf, todo >>
       ELSE IF req[t].kind = "webhook"
       THEN LET names == ListDir(files)
            IN  IF \/ names = << >>
                   \/ req[t].event_type
                          \notin { "payment.captured", "payment.failed" }
                THEN /\ pc' = [pc EXCEPT ![t] = "done"]
                     /\ result' = [result EXCEPT
                                     ![t] = Response(200, None, NoError, 0)]
                     /\ UNCHANGED << stage, tf, todo >>
                ELSE /\ pc' = [pc EXCEPT ![t] = "getlock"]
                     /\ stage' = [stage EXCEPT ![t] = "read"]
                     /\ tf' = [tf EXCEPT ![t] = Head(names)]
                     /\ todo' = [todo EXCEPT ![t] = Tail(names)]
                     /\ UNCHANGED result
       ELSE /\ pc' = [pc EXCEPT ![t] = "getlock"]
            /\ stage' = [stage EXCEPT
                           ![t] = IF req[t].kind = "mark" THEN "read" ELSE "add"]
            /\ tf' = [tf EXCEPT ![t] = req[t].file]
            /\ UNCHANGED << todo, result >>
    /\ UNCHANGED << file_locks, heldLocks, nextLock, files, backups, req, lk,
                    regs, lockOrder >>
    /\ UNCHANGED << payVars, writeVars >>

\* lock = get_file_lock(filepath)
GetFileLock(t) ==
    /\ pc[t] = "getlock"
    /\ file_locks' = TableAfterGet(file_locks, tf[t], heldLocks, nextLock)
    /\ lk' = [lk EXCEPT ![t] = LockOf(file_locks', tf[t])]
    /\ nextLock' = IF lk'[t] = nextLock THEN nextLock + 1 ELSE nextLock
    /\ pc' = [pc EXCEPT ![t] = "acquire"]
    /\ UNCHANGED << heldLocks, files, backups, req, stage, tf, regs, todo,
                    result, lockOrder >>
    /\ UNCHANGED << payVars, writeVars >>

\* with lock: (entering)
Acquire(t) ==
    /\ pc[t] = "acquire"
    /\ ~ locked(lk[t], heldLocks)
    /\ heldLocks' = heldLocks \cup {lk[t]}
    /\ pc' = [pc EXCEPT ![t] = IF stage[t] = "add" THEN "add_read"
                                ELSE IF stage[t] = "read" THEN "rd" ELSE "wr"]
    /\ lockOrder' = Append(lockOrder, t)
    /\ UNCHANGED << file_locks, nextLock, files, backups, req, stage, tf, lk,
                    regs, todo, result >>
    /\ UNCHANGED << payVars, writeVars >>

\* atomic_add_registration: read existing registrations inside the lock; a
\* file that is not text raises UnicodeDecodeError through `with lock:` to
\* the handler, which answers 500
AddRead(t) ==
    /\ pc[t] = "add_read"
    /\ IF read_raises(files[tf[t]])
       THEN /\ heldLocks' = heldLocks \ {lk[t]}
            /\ result' = [result EXCEPT ![t] =
                  Response(500, IF req[t].kind = "verify"
                                THEN "Payment verification failed"
                                ELSE "Failed to process registration",
                           NoError, 0)]
            /\ pc' = [pc EXCEPT ![t] = "done"]
            /\ UNCHANGED regs
       ELSE /\ regs' = [regs EXCEPT ![t] = LoadOrEmpty(files[tf[t]])]
            /\ pc' = [pc EXCEPT ![t] = "add_commit"]
            /\ UNCHANGED << heldLocks, result >>
    /\ UNCHANGED << file_locks, nextLock, files, backups, req, stage, tf, lk,
                    todo, lockOrder >>
    /\ UNCHANGED << payVars, writeVars >>

\* leaving `with lock:` on the return of atomic_add_registration, with the
\* mail still to send
release_after_mail(lock, held) == held

\* leaving `with lock:`
release(lock, held) == held \ {lock}

\* atomic_add_registration: check, assign the id, append, write, leave the
\* lock; then the caller's response, after send_registration_email if there
\* is a QR code to send
AddCommit(t) ==
    /\ pc[t] = "add_commit"
    /\ LET out == AddOutcome(IF req[t].kind = "verify" THEN "payment"
                             ELSE "register", regs[t], req[t].new)
       IN  /\ regs' = [regs EXCEPT ![t] = out.registrations]
           /\ IF out.success
              THEN /\ files' = [files EXCEPT
                                  ![tf[t]] = JsonFile(out.registrations)]
                   /\ backups' = [backups EXCEPT
                         ![tf[t]] = BackupAfterWrite(files[tf[t]], @)]
                   /\ IF req[t].qr_code
                      THEN /\ pc' = [pc EXCEPT ![t] = "mail"]
                           /\ UNCHANGED result
                      ELSE /\ pc' = [pc EXCEPT ![t] = "done"]
                           /\ result' = [result EXCEPT ![t] =
                                 Response(200, None, NoError,
                                          req[t].new.registration_id)]
              ELSE /\ UNCHANGED << files, backups >>
                   /\ pc' = [pc EXCEPT ![t] = "done"]
                   /\ result' = [result EXCEPT ![t] =
                         Response(400,
                                  IF req[t].kind = "verify"
                                  THEN out.error_msg.msg
                                  ELSE "Registration failed",
                                  out.error_msg, 0)]
    /\ heldLocks' = release(lk[t], heldLocks)
    /\ UNCHANGED << file_locks, nextLock, req, stage, tf, lk, todo, lockOrder >>
    /\ UNCHANGED << payVars, writeVars >>

\* admin_mark_entry: safe_json_read under the lock, then the update of the
\* matching record in the local list
MarkRead(t) ==
    /\ pc[t] = "rd"
    /\ req[t].kind = "mark"
    /\ heldLocks' = heldLocks \ {lk[t]}
    /\ LET registrations == safe_json_read(files[tf[t]], backups[tf[t]])
           i == FindEntry(registrations, 1, req[t].regid, req[t].email)
       IN  IF read_raises(files[tf[t]])
           THEN /\ result' = [result EXCEPT ![t] =
                      Response(500, "Internal Server Error", NoError, 0)]
                /\ pc' = [pc EXCEPT ![t] = "done"]
                /\ UNCHANGED << regs, stage >>
           ELSE IF i = 0
           THEN /\ regs' = [regs EXCEPT ![t] = registrations]
                /\ result' = [result EXCEPT ![t] =
                      Response(404, "Registration not found", NoError, 0)]
                /\ pc' = [pc EXCEPT ![t] = "done"]
                /\ UNCHANGED stage
           ELSE /\ regs' = [regs EXCEPT ![t] =
                      [registrations EXCEPT ![i] =
                          MarkEntry(req[t], @, today)]]
                /\ stage' = [stage EXCEPT ![t] = "write"]
                /\ pc' = [pc EXCEPT ![t] = "getlock"]
                /\ UNCHANGED result
    /\ UNCHANGED << file_locks, nextLock, files, backups, req, tf, lk, todo,
                    lockOrder >>
    /\ UNCHANGED << payVars, writeVars >>

\* event_slug = slugify(event.get('name', event_slug)), line 1030, skipped:
\* the slug of the request's URL
slug_of_url(ev, event_slug) == event_slug

\* slugify(event.get('name', event_slug)): the name of event 1 slugs to 1
slugify_event(ev, event_slug) == ev.id

\* f'{event_slug}_{event_id}_registrations.json' as a path: the events of
\* the model have id 1, and the file of slug s is path s
reg_filename(event_slug, event_id) == event_slug

\* f'{event_slug}_registrations.json', lines 1626-1627: a name no
\* submission writes to, so a path that is not on the disk
legacy_filename(event_slug) == 100 + event_slug

\* api_attendance_check: the email stripped and lowered, the file opened
\* without a lock, the scan, the response; a file that is not JSON raises a
\* ValueError, which the handler answers as an invalid event id
AttendanceCheck(t) ==
    /\ pc[t] = "start"
    /\ req[t].kind = "check"
    /\ LET reg_file_path ==
               IF req[t].event_id = 0 THEN req[t].file
               ELSE IF event.registration_file # 0
                    THEN event.registration_file
                    ELSE legacy_filename(slugify_event(event, 0))
           f == IF reg_file_path \in DOMAIN files THEN files[reg_file_path]
                ELSE AbsentFile
           registrations == IF f.kind = "absent" THEN << >> ELSE f.data
           i == FindEntry(registrations, 1, req[t].regid,
                          Lower(Strip(req[t].email)))
       IN  /\ regs' = [regs EXCEPT ![t] = registrations]
           /\ result' = [result EXCEPT ![t] =
                 IF f.kind \notin { "absent", "json" }
                 THEN Response(400, "Invalid event ID.", NoError, 0)
                 ELSE IF i = 0
                 THEN Response(404, "Registration not found. Please check your email and registration ID.",
                               NoError, 0)
                 ELSE Response(200, None, NoError,
                               registrations[i].registration_id)]
    /\ pc' = [pc EXCEPT ![t] = "done"]
    /\ UNCHANGED << file_locks, heldLocks, nextLock, files, backups, req,
                    stage, tf, lk, todo, lockOrder >>
    /\ UNCHANGED << payVars, writeVars >>

\* payment_webhook: safe_json_read of the next file under the lock, then
\* the update of the first record with the notified order id
WebhookRead(t) ==
    /\ pc[t] = "rd"
    /\ req[t].kind = "webhook"
    /\ heldLocks' = heldLocks \ {lk[t]}
    /\ LET registrations == safe_json_read(files[tf[t]], backups[tf[t]])
           i == FindOrder(registrations, 1, req[t].order_id)
       IN  IF read_raises(files[tf[t]])
           THEN /\ result' = [result EXCEPT ![t] =
                      Response(500, "Webhook processing failed", NoError, 0)]
                /\ pc' = [pc EXCEPT ![t] = "done"]
                /\ UNCHANGED << regs, stage, tf, todo >>
           ELSE IF i # 0
           THEN /\ regs' = [regs EXCEPT ![t] =
                      [registrations EXCEPT ![i] =
                          WebhookRecord(@, req[t].event_type,
                                        req[t].payment_id)]]
                /\ stage' = [stage EXCEPT ![t] = "write"]
                /\ pc' = [pc EXCEPT ![t] = "getlock"]
                /\ UNCHANGED << tf, todo, result >>
           ELSE /\ regs' = [regs EXCEPT ![t] = registrations]
                /\ IF todo[t] = << >>
                   THEN /\ pc' = [pc EXCEPT ![t] = "done"]
                        /\ result' = [result EXCEPT ![t] =
                              Response(200, None, NoError, 0)]
                        /\ UNCHANGED << stage, tf, todo >>
                   ELSE /\ pc' = [pc EXCEPT ![t] = "getlock"]
                        /\ tf' = [tf EXCEPT ![t] = Head(todo[t])]
                        /\ todo' = [todo EXCEPT ![t] = Tail(todo[t])]
                        /\ UNCHANGED << stage, result >>
    /\ UNCHANGED << file_locks, nextLock, files, backups, req, lk, lockOrder >>
    /\ UNCHANGED << payVars, writeVars >>

\* safe_json_write under the lock, then the handler's success response
SafeWrite(t) ==
    /\ pc[t] = "wr"
    /\ files' = [files EXCEPT ![tf[t]] = JsonFile(regs[t])]
    /\ backups' = [backups EXCEPT ![tf[t]] = BackupAfterWrite(files[tf[t]], @)]
    /\ heldLocks' = heldLocks \ {lk[t]}
    /\ result' = [result EXCEPT ![t] = Response(200, None, NoError, 0)]
    /\ pc' = [pc EXCEPT ![t] = "done"]
    /\ UNCHANGED << file_locks, nextLock, req, stage, tf, lk, regs, todo,
                    lockOrder >>
    /\ UNCHANGED << payVars, writeVars >>

----------------------------------------------------------------------------
(* Templates, the event, the payment gateway *)

\* calls to uuid.uuid4() in one run
MaxUuid == 2
\* orders created at the gateway, and payments made on them
MaxOrders == 2

\* data/form_templates.json: template 1 asks for a payment, template 2 is
\* free, template 3 has payment_enabled and no payment_amount
\* (template_definition.get('payment_amount', 0))
Templates ==
    1 :> [found |-> TRUE, active |-> TRUE, payment_enabled |-> TRUE,
          payment_amount |-> 100]
    @@
    2 :> [found |-> TRUE, active |-> TRUE, payment_enabled |-> FALSE,
          payment_amount |-> 0]
    @@
    3 :> [found |-> TRUE, active |-> TRUE, payment_enabled |-> TRUE,
          payment_amount |-> 0]

\* next((t for t in templates if t.get('id') == template_id_int), None)
NoTemplate ==
    [found |-> FALSE, active |-> FALSE, payment_enabled |-> FALSE,
     payment_amount |-> 0]

FindTemplate(template_id) ==
    IF template_id \in DOMAIN Templates THEN Templates[template_id]
    ELSE NoTemplate

\* the event of the submissions: its form is template 1
\* the days of the calendar, and the words an admin may type for a deadline
MaxDay == 3
Days == 1 .. MaxDay
Words == { "TBA", "tba", "Tba", "soon" }

\* registration_deadline['date']: a '%Y-%m-%d' text of a day, another text,
\* the empty text, or no registration_deadline at all
DateText(fmt, day, word) == [fmt |-> fmt, day |-> day, word |-> word]
NoDeadline == DateText("none", 0, "")
EmptyDate == DateText("empty", 0, "")
Ymd(day) == DateText("ymd", day, "")
Word(w) == DateText("word", 0, w)

\* str.upper on the words
Upper(w) == IF w \in { "tba", "Tba" } THEN "TBA" ELSE w

\* datetime.strptime(deadline_date, '%Y-%m-%d'): the day, or ValueError
Strptime(text) ==
    IF text.fmt = "ymd" THEN [day |-> text.day, ok |-> TRUE]
    ELSE [day |-> 0, ok |-> FALSE]

\* deadline.date() < get_ist_now().date()
deadline_passed_on_the_day(deadline, now) == deadline <= now

deadline_passed(deadline, now) == deadline < now

\* api_register_event, lines 1015-1028: whether the deadline rejects
DeadlineRejects(deadline_date, now) ==
    IF deadline_date.fmt \in { "none", "empty" } THEN FALSE
    ELSE IF deadline_date.fmt = "word" /\ Upper(deadline_date.word) = "TBA"
    THEN FALSE
    ELSE IF ~ Strptime(deadline_date).ok THEN FALSE
    ELSE deadline_passed(Strptime(deadline_date).day, now)

Event(registration_type, allow_registration, deadline_date) ==
    [ id |-> 1, status |-> "upcoming", registration_file |-> EventFile,
      template_id |-> 1,
      registration_type |-> registration_type,
      allow_registration |-> allow_registration, registration_deadline |-> deadline_date ]

\* an event no submission has reached yet: no 'registration_file' key
Unbound(ev) == [ev EXCEPT !.registration_file = 0]

\* a thread that has not called load_events_file
NoEvents == [Unbound(Event("none", FALSE, NoDeadline)) EXCEPT !.id = 0]

\* event.get('registration_type') not in ['internal']
registration_not_enabled(ev) == ev.registration_type # "internal"

\* event.get('allow_registration') == False
registration_closed_ignored(ev) == FALSE

registration_closed(ev) == ev.allow_registration = FALSE

TheEvent == Event("internal", TRUE, NoDeadline)

\* int(float(amount) * 100)
ToPaise(amount) == amount * 100

\* hmac.new(key, f"{order_id}|{payment_id}", sha256).hexdigest()
Hmac(key, order_id, payment_id) == << key, order_id, payment_id >>

\* get_razorpay_keys()[1]
key_secret == "key_secret"

\* the registration_data a client sends to /payment/verify
RegistrationData(email, registration_id, payment_amount) ==
    [ registration_id |-> registration_id, submitter_email |-> email,
      payment_amount |-> payment_amount ]

NoData == RegistrationData(NoEmail, 0, 0)

\* requests.get(verify_url, auth=auth)
GatewayReply(code, status, order_id, amount) ==
    [order_id |-> order_id, status |-> status, amount |-> amount, code |-> code]

GatewayGet(paid, payment_id, net) ==
    IF net = "raise" THEN GatewayReply(0, None, 0, 0)
    ELSE IF net = "down" \/ ~ \E p \in paid : p.id = payment_id
         THEN GatewayReply(502, None, 0, 0)
         ELSE LET p == CHOOSE q \in paid : q.id = payment_id
              IN  GatewayReply(200, p.status, p.order_id, p.amount)

\* a request as received, and the response to it
Call(endpoint, template_id, pid, oid, sig, data, file, reply, ev, day) ==
    [ event |-> ev, razorpay_payment_id |-> pid, endpoint |-> endpoint,
      registration_file |-> file, template_id |-> template_id,
      reply |-> reply, on |-> day,
      razorpay_order_id |-> oid, razorpay_signature |-> sig,
      registration_data |-> data ]

NoCall ==
    Call(None, 0, 0, 0, Hmac(None, 0, 0), NoData, 0,
         GatewayReply(0, None, 0, 0), TheEvent, 0)

Reply(status, error, details, registration_id, order_id, data) ==
    [ registration_id |-> registration_id, order_id |-> order_id,
      status |-> status, error |-> error, details |-> details,
      registration_data |-> data ]

NoReply == Reply(0, None, NoError, 0, 0, NoData)

\* send_registration_email(email, registration_id, ...)
Mail(email, registration_id) ==
    [registration_id |-> registration_id, to |-> email]
NoMail == Mail(NoEmail, 0)

----------------------------------------------------------------------------
(* payment_verify: steps 1 and 2, the checks before anything is saved *)

VerifyVerdictAnyAmount(pid, oid, signature, data, reply) ==
    IF pid = 0 \/ oid = 0 THEN "Missing payment details"
    ELSE IF data = NoData THEN "Missing registration data"
    ELSE IF Hmac(key_secret, oid, pid) # signature
         THEN "Invalid payment signature"
    ELSE IF reply.code = 0 THEN "Payment verification failed"
    ELSE IF reply.code # 200 THEN "Unable to verify payment with Razorpay"
    ELSE IF reply.status # "captured" THEN "Payment not captured"
    ELSE IF reply.order_id # oid THEN "Order ID mismatch"
    ELSE "ok"

VerifyVerdict(pid, oid, signature, data, reply) ==
    IF pid = 0 \/ oid = 0 THEN "Missing payment details"
    ELSE IF data = NoData THEN "Missing registration data"
    ELSE IF Hmac(key_secret, oid, pid) # signature
         THEN "Invalid payment signature"
    ELSE IF reply.code = 0 THEN "Payment verification failed"
    ELSE IF reply.code # 200 THEN "Unable to verify payment with Razorpay"
    ELSE IF reply.status # "captured" THEN "Payment not captured"
    ELSE IF reply.order_id # oid THEN "Order ID mismatch"
    ELSE IF ToPaise(data.payment_amount) # reply.amount
         THEN "Payment amount mismatch"
    ELSE "ok"

\* the status sent with each of these errors
VerdictStatus(error) ==
    IF error = "Payment verification failed" THEN 500 ELSE 400

----------------------------------------------------------------------------
(* The endpoints, one request served at a time *)

\* api_register_event
Submit(email, template_id, phone, net, qr) ==
    /\ nextUuid <= MaxUuid
    /\ LET template_definition == FindTemplate(template_id)
           reg_file == event.registration_file
           registration_uuid == nextUuid
           data == Registration(registration_uuid, email,
                       IF template_definition.found
                          /\ template_definition.payment_enabled
                       THEN "pending" ELSE "not_required", 0, 0)
           payment_amount == template_definition.payment_amount
           out == AddOutcome("register", LoadOrEmpty(files[reg_file]), data)
           received == Call("register", template_id, 0, 0, Hmac(None, 0, 0),
                            RegistrationData(email, 0, 0), reg_file,
                            GatewayReply(0, None, 0, 0), event, today)
           Reject(error) ==
               /\ resp' = Reply(400, error, NoError, 0, 0, NoData)
               /\ mail' = NoMail
               /\ UNCHANGED << files, backups, nextUuid, orders, echoed >>
       IN  /\ call' = received
           /\ IF Strip(email) = NoEmail
              THEN Reject("Submitter email is required")
              ELSE IF template_definition.found /\ ~ template_definition.active
              THEN Reject("Registration form is inactive")
              ELSE IF registration_not_enabled(event)
              THEN Reject("Registration is not enabled for this event")
              ELSE IF registration_closed(event)
              THEN Reject("Registration is currently closed for this event")
              ELSE IF DeadlineRejects(event.registration_deadline, today)
              THEN Reject("Registration deadline has passed")
              ELSE IF /\ template_definition.found
                      /\ template_definition.payment_enabled
                      /\ payment_amount > 0
              THEN \* payment required: create the order, do not save
                   /\ nextUuid' = nextUuid + 1
                   /\ mail' = NoMail
                   /\ UNCHANGED << files, backups >>
                   /\ IF ~ phone
                      THEN /\ resp' = Reply(400,
                                  "Phone number is required for payment",
                                  NoError, 0, 0, NoData)
                           /\ UNCHANGED << orders, echoed >>
                      ELSE IF net = "ok" /\ Cardinality(orders) < MaxOrders
                      THEN LET order == [id |-> Cardinality(orders) + 1,
                                         amount |-> ToPaise(payment_amount)]
                               registration_data ==
                                   RegistrationData(email, registration_uuid,
                                                    payment_amount)
                           IN  /\ orders' = orders \cup {order}
                               /\ echoed' = echoed \cup {registration_uuid}
                               /\ resp' = Reply(200, None, NoError, 0,
                                                order.id, registration_data)
                      ELSE /\ resp' = Reply(400,
                                  "Failed to create payment order",
                                  NoError, 0, 0, NoData)
                           /\ UNCHANGED << orders, echoed >>
              ELSE \* no payment required: atomic_add_registration
                   /\ nextUuid' = nextUuid + 1
                   /\ UNCHANGED << orders, echoed >>
                   /\ IF out.success
                      THEN /\ files' = [files EXCEPT
                                  ![reg_file] = JsonFile(out.registrations)]
                           /\ backups' = [backups EXCEPT ![reg_file] =
                                  BackupAfterWrite(files[reg_file], @)]
                           /\ mail' = IF qr THEN Mail(email, registration_uuid)
                                      ELSE NoMail
                           /\ resp' = Reply(200, None, NoError,
                                            registration_uuid, 0, NoData)
                      ELSE /\ resp' = Reply(400, "Registration failed",
                                            out.error_msg, 0, 0, NoData)
                           /\ mail' = NoMail
                           /\ UNCHANGED << files, backups >>
    /\ wrote' = (files' # files)
    /\ UNCHANGED << storeVars, writeVars, payments, event, today, local_events >>

\* the client pays an order at the gateway
Pay(order, status) ==
    /\ Cardinality(payments) < MaxOrders
    /\ payments' = payments \cup
           { [ id |-> Cardinality(payments) + 1, order_id |-> order.id,
               status |-> status, amount |-> order.amount ] }
    /\ UNCHANGED << files, backups, storeVars, writeVars, nextUuid, orders,
                    call, resp, wrote, mail, echoed, event, today, local_events >>

\* api_admin_toggle_registration / admin_toggle_registration
ToggleRegistration ==
    /\ event' = [event EXCEPT !.allow_registration = ~ @]
    /\ UNCHANGED << files, backups, storeVars, writeVars, nextUuid, orders,
                    payments, call, resp, wrote, mail, echoed, today, local_events >>

\* midnight in IST
NextDay ==
    /\ today < MaxDay
    /\ today' = today + 1
    /\ UNCHANGED << files, backups, storeVars, writeVars, nextUuid, orders,
                    payments, call, resp, wrote, mail, echoed, event,
                    local_events >>

\* payment_verify
Verify(pid, oid, key, data, file, net, qr) ==
    /\ data.registration_id = 0 => nextUuid <= MaxUuid
    /\ LET razorpay_signature == Hmac(key, oid, pid)
           reply == GatewayGet(payments, pid, net)
           verdict == VerifyVerdict(pid, oid, razorpay_signature, data, reply)
           registration_uuid ==
               IF data.registration_id = 0 THEN nextUuid
               ELSE data.registration_id
           registration_data ==
               Registration(registration_uuid, data.submitter_email,
                            "completed", pid, oid)
           out == AddOutcome("payment", LoadOrEmpty(files[file]),
                             registration_data)
       IN  /\ call' = Call("verify", 0, pid, oid, razorpay_signature,
                           data, file, reply, event, today)
           /\ IF verdict # "ok"
              THEN /\ resp' = Reply(VerdictStatus(verdict), verdict, NoError,
                                    0, 0, NoData)
                   /\ mail' = NoMail
                   /\ UNCHANGED << files, backups, nextUuid >>
              ELSE IF file = 0
              THEN /\ resp' = Reply(400, "Missing registration file", NoError,
                                    0, 0, NoData)
                   /\ mail' = NoMail
                   /\ UNCHANGED << files, backups, nextUuid >>
              ELSE /\ nextUuid' = IF data.registration_id = 0
                                  THEN nextUuid + 1 ELSE nextUuid
                   /\ IF out.success
                      THEN /\ files' = [files EXCEPT
                                  ![file] = JsonFile(out.registrations)]
                           /\ backups' = [backups EXCEPT ![file] =
                                  BackupAfterWrite(files[file], @)]
                           /\ mail' = IF qr
                                      THEN Mail(data.submitter_email,
                                                registration_uuid)
                                      ELSE NoMail
                           /\ resp' = Reply(200, None, NoError,
                                            registration_uuid, 0, NoData)
                      ELSE /\ resp' = Reply(400, out.error_msg.msg,
                                  out.error_msg,
                                  IF out.error_msg.msg
                                         = "Payment already processed"
                                  THEN registration_uuid ELSE 0, 0, NoData)
                           /\ mail' = NoMail
                           /\ UNCHANGED << files, backups >>
    /\ wrote' = (files' # files)
    /\ UNCHANGED << storeVars, writeVars, orders, payments, echoed, event,
                    today, local_events >>

----------------------------------------------------------------------------
(* _write_json_no_lock, step by step, with the lock of filepath held *)

\* a file that is being written: the records that reached the disk so far
PartFile(list) == [kind |-> "bad", data |-> list]

\* fd, temp_path = tempfile.mkstemp(suffix='.json', dir=dir_name)
temp_path_is_target(filepath) == filepath

temp_path(filepath) == TempName

\* the call: os.makedirs, then os.path.exists(filepath)
WriteStart(filepath) ==
    /\ wpc = "idle"
    /\ old' = files[filepath]
    /\ wpc' = IF files[filepath].kind # "absent" THEN "backup" ELSE "mkstemp"
    /\ UNCHANGED << files, backups, wdata, tmp, storeVars, payVars >>

\* shutil.copy2(filepath, backup_path): it completes, or it raises part way
\* and the exception is logged
BackupCopy(filepath, ok) ==
    /\ wpc = "backup"
    /\ backups' = [backups EXCEPT ![filepath] =
                      IF ok THEN files[filepath]
                      ELSE PartFile(SubSeq(files[filepath].data, 1,
                                           Len(files[filepath].data) - 1))]
    /\ wpc' = "mkstemp"
    /\ UNCHANGED << files, wdata, tmp, old, storeVars, payVars >>

\* tempfile.mkstemp: an empty file under a new name, or an exception that
\* leaves the function
MakeTemp(filepath, ok) ==
    /\ wpc = "mkstemp"
    /\ IF ok
       THEN /\ tmp' = temp_path(filepath)
            /\ files' = [files EXCEPT ![tmp'] = PartFile(<< >>)]
            /\ wpc' = "dump"
       ELSE /\ wpc' = "raised"
            /\ UNCHANGED << files, tmp >>
    /\ UNCHANGED << backups, wdata, old, storeVars, payVars >>

\* json.dump(data, f): the next part of the text reaches the temp file, the
\* file is closed after the last one, or the write raises
Dump(ok) ==
    /\ wpc = "dump"
    /\ IF ~ ok
       THEN /\ wpc' = "except"
            /\ UNCHANGED files
       ELSE IF Len(files[tmp].data) < Len(wdata)
       THEN /\ files' = [files EXCEPT ![tmp] =
                            PartFile(Append(@.data,
                                            wdata[Len(@.data) + 1]))]
            /\ wpc' = "dump"
       ELSE /\ files' = [files EXCEPT ![tmp] = JsonFile(wdata)]
            /\ wpc' = "rename"
    /\ UNCHANGED << backups, wdata, tmp, old, storeVars, payVars >>

\* os.rename(temp_path, filepath), or os.replace on Windows
Rename(filepath, ok) ==
    /\ wpc = "rename"
    /\ IF ok
       THEN /\ files' = [p \in DOMAIN files |->
                            IF p = filepath THEN files[tmp]
                            ELSE IF p = tmp THEN AbsentFile
                            ELSE files[p]]
            /\ wpc' = "done"
       ELSE /\ wpc' = "except"
            /\ UNCHANGED files
    /\ UNCHANGED << backups, wdata, tmp, old, storeVars, payVars >>

\* except Exception: os.remove(temp_path); raise e
RemoveTemp ==
    /\ wpc = "except"
    /\ files' = [files EXCEPT ![tmp] = AbsentFile]
    /\ wpc' = "raised"
    /\ UNCHANGED << backups, wdata, tmp, old, storeVars, payVars >>

\* the process dies between two steps of the write
Crash ==
    /\ wpc \in { "backup", "mkstemp", "dump", "rename", "except" }
    /\ wpc' = "crashed"
    /\ UNCHANGED << files, backups, wdata, tmp, old, storeVars, payVars >>

----------------------------------------------------------------------------
(* atomic_add_registration with the steps of its write told apart *)

\* a write that raised is reported as success all the same
AddWriteOutcomeSwallowed(raised, registrations) ==
    [ registrations |-> registrations, success |-> TRUE,
      error_msg |-> NoError ]

\* try: _write_json_no_lock(...); return (True, None, registrations)
\* except Exception as e: return (False, "Failed to save registration: ...",
\* registrations)
AddWriteOutcome(raised, registrations) ==
    IF raised
    THEN [ registrations |-> registrations,
           success |-> FALSE,
           error_msg |-> ErrorMsg("Failed to save registration", NoEmail) ]
    ELSE [ registrations |-> registrations, success |-> TRUE,
           error_msg |-> NoError ]

\* no conflict: assign the id, append, and enter _write_json_no_lock
\* (os.makedirs, then os.path.exists(filepath))
AddWrite(t) ==
    /\ pc[t] = "add_commit"
    /\ wpc = "idle"
    /\ LET out == AddOutcome(IF req[t].kind = "verify" THEN "payment"
                             ELSE "register", regs[t], req[t].new)
       IN  /\ out.success
           /\ regs' = [regs EXCEPT ![t] = out.registrations]
           /\ wdata' = out.registrations
    /\ old' = files[tf[t]]
    /\ tmp' = 0
    /\ wpc' = IF files[tf[t]].kind # "absent" THEN "backup" ELSE "mkstemp"
    /\ pc' = [pc EXCEPT ![t] = "add_write"]
    /\ UNCHANGED << file_locks, heldLocks, nextLock, files, backups, req,
                    stage, tf, lk, todo, result, lockOrder >>
    /\ UNCHANGED payVars

\* the write returned or raised: leave the lock; then the caller's response
AddReturn(t) ==
    /\ pc[t] = "add_write"
    /\ wpc \in { "done", "raised" }
    /\ LET out == AddWriteOutcome(wpc = "raised", regs[t])
       IN  result' = [result EXCEPT ![t] =
               IF out.success
               THEN Response(200, None, NoError, req[t].new.registration_id)
               ELSE Response(400,
                             IF req[t].kind = "verify"
                             THEN out.error_msg.msg
                             ELSE "Registration failed",
                             out.error_msg, 0)]
    /\ heldLocks' = heldLocks \ {lk[t]}
    /\ pc' = [pc EXCEPT ![t] = "done"]
    /\ wpc' = "idle"
    /\ UNCHANGED << file_locks, nextLock, files, backups, req, stage, tf, lk,
                    regs, todo, lockOrder >>
    /\ UNCHANGED << payVars, wdata, tmp, old >>

----------------------------------------------------------------------------
(* Initial states *)

EmailA == Email("a", FALSE, FALSE)
EmailACaps == Email("a", TRUE, FALSE)
EmailB == Email("b", FALSE, FALSE)
EmailC == Email("c", FALSE, FALSE)
EmailD == Email("d", FALSE, FALSE)

\* a file after a paid registration and a free one were committed
PaidRecord ==
    [Registration(1, EmailA, "completed", 1, 1) EXCEPT !.id = 1]
FreeRecord ==
    [Registration(2, EmailB, "not_required", 0, 0) EXCEPT !.id = 2]
TwoRecords == << PaidRecord, FreeRecord >>

\* paths and Lock objects of the requests served before the modelled ones
OldEntry(i) == Entry(1000 + i, 1000 + i)

\* the table at its ceiling, the event's file being its oldest entry
AgedTable ==
    [i \in 1 .. _MAX_FILE_LOCKS |->
        IF i = 1 THEN Entry(EventFile, 1) ELSE OldEntry(i)]

\* the table at its ceiling before the event's file was ever locked
FullOfOthers == [i \in 1 .. _MAX_FILE_LOCKS |-> OldEntry(i)]

\* what the gateway holds: the orders created and the payments made
Gateway(os, ps) == [orders |-> os, payments |-> ps]

InitPay(gateways) ==
    /\ nextUuid = 1
    /\ \E g \in gateways : orders = g.orders /\ payments = g.payments
    /\ call = NoCall
    /\ resp = NoReply
    /\ wrote = FALSE
    /\ mail = NoMail
    /\ echoed = {}

InitEvent(events, days) ==
    /\ event \in events
    /\ today \in days
    /\ local_events = [t \in Threads |-> NoEvents]

InitWriter(lists) ==
    /\ wpc = "idle"
    /\ wdata \in lists
    /\ tmp = 0
    /\ old = AbsentFile

\* the lock table and the threads before any request is served; helds are
\* the locks that requests outside the model may hold
InitLocks(tables, helds) ==
    /\ file_locks \in tables
    /\ heldLocks \in helds
    /\ nextLock = 2
    /\ pc = [t \in Threads |-> "start"]
    /\ stage = [t \in Threads |-> None]
    /\ tf = [t \in Threads |-> EventFile]
    /\ lk = [t \in Threads |-> 0]
    /\ regs = [t \in Threads |-> << >>]
    /\ todo = [t \in Threads |-> << >>]
    /\ result = [t \in Threads |-> NoResponse]
    /\ lockOrder = << >>

InitThreads(tables) == InitLocks(tables, { {} })

\* the event's file as the last write left it: its backup is the list
\* before the last append
InitStore(tables, contents) ==
    /\ InitThreads(tables)
    /\ \E c \in contents :
          /\ files = [p \in Paths \cup {TempName} |->
                         IF p = EventFile THEN c ELSE AbsentFile]
          /\ backups = [p \in Paths |->
                           IF p = EventFile /\ Len(c.data) > 0
                           THEN JsonFile(SubSeq(c.data, 1, Len(c.data) - 1))
                           ELSE AbsentFile]

\* each thread serves one request of the menu; threads are interchangeable,
\* so the choices are taken in nondecreasing order
InitRequests(menus) ==
    \E a \in [Threads -> 1 .. Len(menus[1])] :
        /\ \A i, j \in Threads : i < j => a[i] <= a[j]
        /\ req = [t \in Threads |-> menus[t][a[t]]]

SpecMenu(t) ==
    << RegisterReq(t, EventFile, EmailC),
       RegisterReq(t, EventFile, EmailACaps),
       RegisterReq(t, 2, EmailC),
       VerifyReq(t, EmailD, 2),
       MarkReq(1, EmailACaps, "full"),
       MarkReq(2, EmailB, "partial"),
       WebhookReq("payment.captured", 1, 1),
       WebhookReq("payment.failed", 1, 0) >>

Init ==
    /\ InitStore({ << >>, AgedTable }, { AbsentFile, JsonFile(TwoRecords) })
    /\ InitPay({ Gateway({}, {}) })
    /\ InitEvent({ TheEvent }, { 1 })
    /\ InitWriter({ << >> })
    /\ InitRequests([t \in Threads |-> SpecMenu(t)])

Next ==
    \E t \in Threads :
        \/ Begin(t)
        \/ GetFileLock(t)
        \/ Acquire(t)
        \/ AddRead(t)
        \/ AddCommit(t)
        \/ MarkRead(t)
        \/ WebhookRead(t)
        \/ SafeWrite(t)

Spec == Init /\ [][Next]_vars

(* N concurrent submissions against the event's file, nothing else running *)

AppendMenu(t) ==
    << RegisterReq(t, EventFile, EmailA),
       RegisterReq(t, EventFile, EmailACaps),
       RegisterReq(t, EventFile, EmailB),
       RegisterReq(t, EventFile, EmailC),
       RegisterReq(t, EventFile, EmailD) >>

InitAppend ==
    /\ InitStore({ << >>, AgedTable, FullOfOthers },
                 { AbsentFile, JsonFile(<< >>) })
    /\ InitPay({ Gateway({}, {}) })
    /\ InitEvent({ TheEvent }, { 1 })
    /\ InitWriter({ << >> })
    /\ InitRequests([t \in Threads |-> AppendMenu(t)])

NextAppend ==
    \E t \in Threads :
        \/ Begin(t)
        \/ GetFileLock(t)
        \/ Acquire(t)
        \/ AddRead(t)
        \/ AddCommit(t)

SpecAppend == InitAppend /\ [][NextAppend]_vars

----------------------------------------------------------------------------
(* Properties *)

AllDone == \A t \in Threads : pc[t] = "done"

\* the email a submission is compared by
Key(t) == Lower(Strip(req[t].new.submitter_email))

Stored(p) == files[p].data

HoldsCredential(p, cred) ==
    \E i \in 1 .. Len(Stored(p)) : Stored(p)[i].registration_id = cred

\* s entered its lock before t did
Before(s, t) ==
    \E i, j \in 1 .. Len(lockOrder) :
        i < j /\ lockOrder[i] = s /\ lockOrder[j] = t

\* C1: N concurrent atomic_add_registration calls against one file that was
\* absent or empty, with pairwise distinct emails: once all have returned,
\* every call reported success and the file holds exactly N records, with
\* ids 1..N, one per call.
C1_AtomicAppend ==
    (AllDone /\ \A s, t \in Threads : s # t => Key(s) # Key(t))
    => /\ \A t \in Threads : result[t].status = 200
       /\ files[EventFile].kind = "json"
       /\ Len(Stored(EventFile)) = NThreads
       /\ \A i \in 1 .. Len(Stored(EventFile)) : Stored(EventFile)[i].id = i
       /\ \A t \in Threads :
             HoldsCredential(EventFile, req[t].new.registration_id)

C1_Witness ==
    /\ AllDone
    /\ \A s, t \in Threads : s # t => Key(s) # Key(t)
    /\ Len(Stored(EventFile)) = NThreads
    /\ Len(file_locks) < _MAX_FILE_LOCKS
    /\ Len(file_locks) > 1

\* C2: of the submissions that carry the same email up to letter case, the
\* one that enters the file lock first succeeds and its record is stored;
\* every other one gets the duplicate error and stores nothing; the file
\* holds exactly one record with that email.
C2_OneWinner ==
    \A t \in Threads :
        pc[t] = "done" =>
            /\ Cardinality({ i \in 1 .. Len(Stored(EventFile)) :
                   Lower(Strip(Stored(EventFile)[i].submitter_email)) = Key(t) })
                   = 1
            /\ IF \E s \in Threads : s # t /\ Key(s) = Key(t) /\ Before(s, t)
               THEN /\ result[t].status = 400
                    /\ result[t].details
                           = ErrorMsg("Email already registered", Key(t))
                    /\ ~ HoldsCredential(EventFile, req[t].new.registration_id)
               ELSE /\ result[t].status = 200
                    /\ HoldsCredential(EventFile, req[t].new.registration_id)

C2_Witness ==
    \E s, t \in Threads :
        /\ req[s].new.submitter_email # req[t].new.submitter_email
        /\ Key(s) = Key(t)
        /\ pc[s] = "done" /\ pc[t] = "done"
        /\ result[s].status = 200
        /\ result[t].status = 400

\* the thread is inside a `with lock:` block
InCriticalSection(t) == pc[t] \in {"add_read", "add_commit", "rd", "wr"}

\* C3: for every path, at most one thread at a time is inside a critical
\* section guarded by the lock get_file_lock(path) returned.
C3_MutualExclusion ==
    \A s, t \in Threads :
        (s # t /\ InCriticalSection(s) /\ InCriticalSection(t))
        => tf[s] # tf[t]

\* C4: two marking requests for two different registrations of one file that
\* both returned success have both left their update in the file.
C4_BothMarksKept ==
    \A s, t \in Threads :
        ( /\ s # t
          /\ req[s].kind = "mark" /\ req[t].kind = "mark"
          /\ req[s].regid # req[t].regid
          /\ pc[s] = "done" /\ pc[t] = "done"
          /\ result[s].status = 200 /\ result[t].status = 200 )
        => \A u \in {s, t} :
               \E i \in 1 .. Len(Stored(EventFile)) :
                   /\ Stored(EventFile)[i].registration_id = req[u].regid
                   /\ Stored(EventFile)[i].attendance_status
                          = MarkedStatus(req[u].attendance_type)

\* C5: a record, once in a file, is in that file in every later state, and
\* the number of records of a file never decreases.
C5_NeverRemoved ==
    [][ \A p \in Paths :
            /\ Len(files'[p].data) >= Len(files[p].data)
            /\ \A i \in 1 .. Len(files[p].data) :
                   \E j \in 1 .. Len(files'[p].data) :
                       files'[p].data[j].registration_id
                           = files[p].data[i].registration_id ]_vars

----------------------------------------------------------------------------
(* Submissions, payments and verifications, served one at a time *)

InitPayments ==
    /\ InitStore({ << >> }, { AbsentFile })
    /\ InitPay({ Gateway({}, {}) })
    /\ InitEvent({ TheEvent }, { 1 })
    /\ InitWriter({ << >> })
    /\ req = [t \in Threads |-> RegisterReq(t, EventFile, NoEmail)]

PayEmails == { EmailA, EmailB }

\* what a browser sends to /api/register/<event_slug>, and what happens to
\* the request at the gateway and in generate_qr_code
Submissions ==
    [ email : PayEmails, template_id : {0, 1, 2, 9}, net : {"ok", "down"},
      phone : BOOLEAN, qr : BOOLEAN ]

\* what a client sends to /payment/verify after paying: the signature is
\* the gateway's, the rest of the payload is the client's
Verifications ==
    [ email : PayEmails, pid : 1 .. MaxOrders, oid : 1 .. MaxOrders,
      registration_id : 0 .. MaxUuid, key : {key_secret},
      file : {EventFile}, payment_amount : {100}, net : {"ok"},
      qr : BOOLEAN ]

NextPayments ==
    \/ \E r \in Submissions :
          Submit(r.email, r.template_id, r.phone, r.net, r.qr)
    \/ \E order \in orders, status \in {"captured", "authorized"} :
          Pay(order, status)
    \/ \E r \in Verifications :
          Verify(r.pid, r.oid, r.key,
                 RegistrationData(r.email, r.registration_id,
                                  r.payment_amount),
                 r.file, r.net, r.qr)

SpecPayments == InitPayments /\ [][NextPayments]_vars

----------------------------------------------------------------------------
(* Verification requests against a gateway that already has payments *)

Order(id) == [id |-> id, amount |-> ToPaise(Templates[1].payment_amount)]

Payment(id, order_id, status) ==
    [ id |-> id, order_id |-> order_id, status |-> status,
      amount |-> Order(order_id).amount ]

InitVerify ==
    /\ InitStore({ << >> }, { AbsentFile, JsonFile(<< >>) })
    /\ req = [t \in Threads |-> RegisterReq(t, EventFile, NoEmail)]
    /\ InitWriter({ << >> })
    /\ InitEvent({ TheEvent }, { 1 })
    /\ InitPay({ Gateway({Order(1)}, {Payment(1, 1, status)}) :
                    status \in {"captured", "authorized"} })

\* what anyone can send to /payment/verify
Attempts ==
    [ email : {EmailA}, pid : 0 .. MaxOrders,
      oid : 1 .. MaxOrders, registration_id : {0},
      key : {key_secret, "guess"}, file : {EventFile, 2},
      payment_amount : {100, 1}, net : {"ok", "down", "raise"}, qr : {TRUE} ]

NextVerify ==
    \E r \in Attempts :
        Verify(r.pid, r.oid, r.key,
               RegistrationData(r.email, r.registration_id, r.payment_amount),
               r.file, r.net, r.qr)

SpecVerify == InitVerify /\ [][NextVerify]_vars

----------------------------------------------------------------------------
(* Payment gate and credentials *)

\* C6: every registration stored in the file of the event, whose template
\* asks for a payment, carries a payment that the gateway holds as captured
\* for the template's amount; the submission endpoint alone stores none.
C6_PaidBeforeStored ==
    \A i \in 1 .. Len(Stored(TheEvent.registration_file)) :
        LET r == Stored(TheEvent.registration_file)[i]
        IN  \E p \in payments :
                /\ p.id = r.payment_id
                /\ p.status = "captured"
                /\ p.amount = ToPaise(Templates[TheEvent.template_id].payment_amount)

\* the checks of a verification request that fail, computed from the request
\* and the gateway's reply
FailedChecks ==
    { reason \in { "Invalid payment signature", "Payment not captured",
                   "Order ID mismatch", "Payment amount mismatch" } :
        \/ /\ reason = "Invalid payment signature"
           /\ call.razorpay_signature
                  # << key_secret, call.razorpay_order_id,
                       call.razorpay_payment_id >>
        \/ /\ reason = "Payment not captured"
           /\ call.reply.code = 200
           /\ call.reply.status # "captured"
        \/ /\ reason = "Order ID mismatch"
           /\ call.reply.code = 200
           /\ call.reply.order_id # call.razorpay_order_id
        \/ /\ reason = "Payment amount mismatch"
           /\ call.reply.code = 200
           /\ call.reply.amount # 100 * call.registration_data.payment_amount }

\* C7: a verification request, carrying payment id, order id and signature,
\* that fails the signature, capture-status, order-id or amount check is
\* rejected with the reason of a check it fails and writes no registration
\* file; a verification that wrote a file failed none of them.
C7_RejectedUnlessAllPass ==
    (call.endpoint = "verify" /\ FailedChecks # {}) =>
        /\ ~ wrote
        /\ resp.status = 400
        /\ resp.registration_id = 0
        /\ call.razorpay_payment_id # 0 => resp.error \in FailedChecks
        /\ call.razorpay_signature
               # << key_secret, call.razorpay_order_id,
                    call.razorpay_payment_id >>
           /\ call.razorpay_payment_id # 0
           => resp.error = "Invalid payment signature"

\* a request with a good signature for a captured payment of the right order
\* was rejected for its amount alone, on a disk that an earlier verification
\* had written
C7_Witness ==
    /\ call.endpoint = "verify"
    /\ FailedChecks = { "Payment amount mismatch" }
    /\ resp.error = "Payment amount mismatch"
    /\ ~ wrote
    /\ Len(Stored(EventFile)) > 0

\* C9: after a successful registration the credential in the response, the
\* one in the confirmation email and the registration_id of the record just
\* stored are equal, and on the payment path it is a credential that the
\* submission endpoint generated and echoed in registration_data.
C9_SameCredential ==
    (resp.status = 200 /\ resp.registration_id # 0) =>
        LET stored == Stored(call.registration_file)
        IN  /\ Len(stored) > 0
            /\ stored[Len(stored)].registration_id = resp.registration_id
            /\ mail # NoMail => mail.registration_id = resp.registration_id
            /\ call.endpoint = "verify" => resp.registration_id \in echoed

\* C10: no two registrations stored in one file carry the same
\* registration_id.
C10_UniqueCredential ==
    \A p \in Paths :
        \A i, j \in 1 .. Len(Stored(p)) :
            i # j => Stored(p)[i].registration_id # Stored(p)[j].registration_id

----------------------------------------------------------------------------
(* One write of a list to the event's file *)

NewRecord == Registration(3, EmailC, "not_required", 0, 0)

InitWrite ==
    /\ InitStore({ << >> },
                 { AbsentFile, JsonFile(<< >>), JsonFile(<< PaidRecord >>),
                   JsonFile(TwoRecords) })
    /\ InitPay({ Gateway({}, {}) })
    /\ InitEvent({ TheEvent }, { 1 })
    /\ InitWriter({ << >>, << PaidRecord >>, TwoRecords,
                    Append(TwoRecords, NewRecord) })
    /\ req = [t \in Threads |-> RegisterReq(t, EventFile, NoEmail)]

NextWrite ==
    \/ WriteStart(EventFile)
    \/ \E ok \in BOOLEAN : BackupCopy(EventFile, ok)
    \/ \E ok \in BOOLEAN : MakeTemp(EventFile, ok)
    \/ \E ok \in BOOLEAN : Dump(ok)
    \/ \E ok \in BOOLEAN : Rename(EventFile, ok)
    \/ RemoveTemp
    \/ Crash

SpecWrite == InitWrite /\ [][NextWrite]_vars

\* C8: from the start of a write on, the target file holds the complete list
\* it held before the write or the complete list being written, never part
\* of one; until the rename has happened, and after a crash or an exception
\* at any step before it, the target is what it was before the write.
C8_OldOrNew ==
    wpc # "idle" =>
        /\ files[EventFile] \in { old, JsonFile(wdata) }
        /\ files[EventFile].kind # "bad"
        /\ wpc # "done" => files[EventFile] = old
        /\ wpc = "done" => files[EventFile] = JsonFile(wdata)

\* the writer died with a partly written temp file beside a target that held
\* a list other than the one being written
C8_Witness ==
    /\ wpc = "crashed"
    /\ tmp # 0
    /\ files[tmp].kind = "bad"
    /\ Len(files[tmp].data) > 0
    /\ old.kind = "json"
    /\ old.data # wdata
    /\ files[EventFile] = old

----------------------------------------------------------------------------
(* Submissions to an event while the admin opens and closes it and days pass *)

Deadlines ==
    { NoDeadline, EmptyDate } \cup { Ymd(d) : d \in Days }
        \cup { Word(w) : w \in Words }

EventsOnFile ==
    { Event(registration_type, allow_registration, deadline_date) :
        registration_type \in { "internal", "external", "none" },
        allow_registration \in BOOLEAN, deadline_date \in Deadlines }

\* submissions that pass the validation of the form: without a template
\* (stored at once) and with the event's template (a payment order)
ValidSubmissions ==
    [ email : PayEmails, template_id : {0, 1}, net : {"ok"},
      phone : {TRUE}, qr : {TRUE} ]

InitGate ==
    /\ InitStore({ << >> }, { AbsentFile })
    /\ InitPay({ Gateway({}, {}) })
    /\ InitWriter({ << >> })
    /\ InitEvent(EventsOnFile, Days)
    /\ req = [t \in Threads |-> RegisterReq(t, EventFile, NoEmail)]

NextGate ==
    \/ \E r \in ValidSubmissions :
          Submit(r.email, r.template_id, r.phone, r.net, r.qr)
    \/ ToggleRegistration
    \/ NextDay

SpecGate == InitGate /\ [][NextGate]_vars

\* the submission just served went to an event that was open to it
OpenWhenServed ==
    /\ call.endpoint = "register"
    /\ call.event.registration_type = "internal"
    /\ call.event.allow_registration

\* C11: a valid submission served on the deadline date D of its event is
\* accepted (it is stored or gets its payment order; only the duplicate
\* check may still refuse it), one served on a later date is rejected with
\* 'Registration deadline has passed' and stores nothing, and with a
\* deadline 'TBA' in any letter case no date rejects.
C11_DeadlineDay ==
    OpenWhenServed =>
        LET deadline_date == call.event.registration_deadline
        IN  /\ (deadline_date.fmt = "ymd" /\ call.on > deadline_date.day) =>
                   /\ resp.status = 400
                   /\ resp.error = "Registration deadline has passed"
                   /\ resp.order_id = 0
                   /\ ~ wrote
            /\ (deadline_date.fmt = "ymd" /\ call.on <= deadline_date.day) =>
                   \/ resp.status = 200 /\ (wrote \/ resp.order_id # 0)
                   \/ resp.error = "Registration failed"
            /\ (deadline_date.fmt = "word"
                    /\ deadline_date.word \in { "TBA", "tba", "Tba" }) =>
                   resp.error # "Registration deadline has passed"

\* a submission was stored on the deadline date, and the next one, a day
\* later, was rejected for the date
C11_Witness ==
    /\ OpenWhenServed
    /\ call.event.registration_deadline.fmt = "ymd"
    /\ call.on = call.event.registration_deadline.day + 1
    /\ resp.error = "Registration deadline has passed"
    /\ Len(Stored(EventFile)) = 1
    /\ nextUuid = 2

\* C12: a submission served while its event's registration_type is not
\* 'internal' or its allow_registration is false is rejected, appends no
\* record to the event's file and creates no payment order.
C12_ClosedGate ==
    [][ ( /\ event.registration_type # "internal"
             \/ event.allow_registration = FALSE
          /\ event' = event
          /\ today' = today )
        => /\ files' = files
           /\ backups' = backups
           /\ orders' = orders
           /\ resp'.status = 400
           /\ resp'.error \in
                  { "Registration is not enabled for this event",
                    "Registration is currently closed for this event" } ]_vars

\* the admin closed an event that already had a registration, and the next
\* submission was turned away
C12_Witness ==
    /\ call.endpoint = "register"
    /\ call.event.registration_type = "internal"
    /\ call.event.allow_registration = FALSE
    /\ resp.error = "Registration is currently closed for this event"
    /\ Len(Stored(EventFile)) > 0

----------------------------------------------------------------------------
(* Sequential ids, emails and payment ids of the stored records *)

\* the append of thread t was stored
Appended(t) ==
    /\ pc[t] = "done"
    /\ req[t].kind = "register"
    /\ result[t].status = 200

\* C13: in every file the sequential ids of the records are 1, 2, ... in
\* order, and no two appends to one file that were reported stored received
\* the same id, whatever markings and webhook updates ran beside them.
C13_SequentialIds ==
    /\ \A p \in Paths :
           \A i \in 1 .. Len(Stored(p)) : Stored(p)[i].id = i
    /\ \A s, t \in Threads :
           (s # t /\ Appended(s) /\ Appended(t) /\ tf[s] = tf[t])
           => regs[s][Len(regs[s])].id # regs[t][Len(regs[t])].id

\* Commits into the event's file, one at a time: submissions stored without
\* payment and verifications of two captured payments
InitCommits ==
    /\ InitStore({ << >> }, { AbsentFile })
    /\ InitPay({ Gateway({ Order(1), Order(2) },
                         { Payment(1, 1, "captured"),
                           Payment(2, 2, "captured") }) })
    /\ InitWriter({ << >> })
    /\ InitEvent({ TheEvent }, { 1 })
    /\ req = [t \in Threads |-> RegisterReq(t, EventFile, NoEmail)]

NextCommits ==
    \/ \E email \in { EmailA, EmailACaps, EmailB } :
          Submit(email, 0, TRUE, "ok", TRUE)
    \/ \E email \in { EmailA, EmailACaps, EmailB }, pid \in {1, 2},
          registration_id \in 0 .. MaxUuid :
          Verify(pid, pid, key_secret,
                 RegistrationData(email, registration_id, 100),
                 EventFile, "ok", TRUE)

SpecCommits == InitCommits /\ [][NextCommits]_vars

\* C14: in every file no two records have submitter emails that differ at
\* most in letter case, after any sequence of submissions stored without
\* payment and of payment verifications stored.
C14_UniqueEmail ==
    \A p \in Paths :
        \A i, j \in 1 .. Len(Stored(p)) :
            i # j =>
                \/ Stored(p)[i].submitter_email.name
                       # Stored(p)[j].submitter_email.name
                \/ Stored(p)[i].submitter_email.pad
                       # Stored(p)[j].submitter_email.pad

\* a verification for 'A@...' was refused because a submission stored
\* without payment holds 'a@...'
C14_Witness ==
    /\ call.endpoint = "verify"
    /\ call.registration_data.submitter_email = EmailACaps
    /\ resp.error = "Email already registered"
    /\ \E i \in 1 .. Len(Stored(EventFile)) :
           /\ Stored(EventFile)[i].submitter_email = EmailA
           /\ Stored(EventFile)[i].payment_id = 0

\* the step serves a verification whose payment id is on a record of its
\* target file
RetriedVerification ==
    /\ call'.endpoint = "verify"
    /\ call'.registration_file # 0
    /\ \E i \in 1 .. Len(Stored(call'.registration_file)) :
           Stored(call'.registration_file)[i].payment_id
               = call'.razorpay_payment_id

\* a record before the first one with the call's payment id holds the call's
\* email in another or the same letter case
EmailSeenFirst ==
    LET stored == Stored(call'.registration_file)
        e == call'.registration_data.submitter_email
    IN  \E j \in 1 .. Len(stored) :
            /\ stored[j].submitter_email.name = e.name
            /\ stored[j].submitter_email.pad = e.pad
            /\ \A i \in 1 .. j :
                   stored[i].payment_id # call'.razorpay_payment_id

\* no file holds two records with the same payment id
PaymentIdsUnique ==
    \A p \in Paths :
        \A i, j \in 1 .. Len(Stored(p)) :
            (i # j /\ Stored(p)[i].payment_id # 0)
            => Stored(p)[i].payment_id # Stored(p)[j].payment_id

----------------------------------------------------------------------------
(* Failures of the record store *)

\* thread t leaves atomic_add_registration in this step, and the list it
\* read holds the email of its submission in some letter case
ConflictAtCommit(t) ==
    /\ pc[t] = "add_commit"
    /\ pc'[t] = "done"
    /\ req[t].kind = "register"
    /\ \E i \in 1 .. Len(regs[t]) :
           regs[t][i].submitter_email.name = req[t].new.submitter_email.name

\* C16: when the uniqueness predicate reports a conflict,
\* atomic_add_registration returns failure with the conflict message and the
\* list as read, releases the lock and leaves the file, its backup and the
\* count of records unchanged; the new record is not in the list.
C16_ConflictFrame ==
    [][ \A t \in Threads :
            ConflictAtCommit(t)
            => /\ files' = files
               /\ backups' = backups
               /\ regs'[t] = regs[t]
               /\ result'[t].status = 400
               /\ result'[t].details.msg = "Email already registered"
               /\ result'[t].details.arg.name = req[t].new.submitter_email.name
               /\ lk[t] \notin heldLocks'
               /\ \A i \in 1 .. Len(regs'[t]) :
                      regs'[t][i].registration_id
                          # req[t].new.registration_id ]_vars

\* a submission was refused for its email after another one had been stored;
\* it holds the list it read, which is the file, and its lock is free
C16_Witness ==
    \E t \in Threads :
        /\ pc[t] = "done"
        /\ result[t].status = 400
        /\ result[t].details.msg = "Email already registered"
        /\ Len(regs[t]) > 0
        /\ regs[t] = Stored(EventFile)
        /\ lk[t] \notin heldLocks

(* Readers of a file that the last writer did not leave: missing, cut     *)
(* short, or not text, and a backup in any of these conditions            *)

ReadContents ==
    { AbsentFile, JsonFile(<< >>), JsonFile(TwoRecords), PartFile(TwoRecords),
      UndecodableFile }

ReadBackups ==
    { AbsentFile, JsonFile(<< PaidRecord >>), PartFile(<< PaidRecord >>),
      UndecodableFile }

ReadMenu(t) ==
    << MarkReq(1, EmailACaps, "full"),
       MarkReq(1, EmailB, "full"),
       MarkReq(2, EmailB, "partial") >>

InitRead ==
    /\ InitThreads({ << >> })
    /\ \E c \in ReadContents, b \in ReadBackups :
          /\ files = [p \in Paths \cup {TempName} |->
                         IF p = EventFile THEN c ELSE AbsentFile]
          /\ backups = [p \in Paths |->
                           IF p = EventFile THEN b ELSE AbsentFile]
    /\ InitPay({ Gateway({}, {}) })
    /\ InitEvent({ TheEvent }, { 1 })
    /\ InitWriter({ << >> })
    /\ InitRequests([t \in Threads |-> ReadMenu(t)])

NextRead ==
    \E t \in Threads :
        \/ Begin(t)
        \/ GetFileLock(t)
        \/ Acquire(t)
        \/ MarkRead(t)
        \/ SafeWrite(t)

SpecRead == InitRead /\ [][NextRead]_vars

\* the step in which thread t's safe_json_read returns or raises
ReadStep(t) ==
    /\ pc[t] = "rd"
    /\ pc'[t] # "rd"

\* the credentials of a list, in order
Credentials(list) == [i \in DOMAIN list |-> list[i].registration_id]

\* C17: safe_json_read never raises to its caller: for a missing file it
\* returns an empty list, for an unparseable file the content of the backup
\* when that parses, and an empty list when both fail; it never modifies the
\* file or the backup.
C17_ReadNeverRaises ==
    [][ \A t \in Threads :
            ReadStep(t)
            => LET f == files[tf[t]]
                   b == backups[tf[t]]
               IN  /\ files' = files
                   /\ backups' = backups
                   /\ result'[t].status # 500
                   /\ Credentials(regs'[t])
                        = IF f.kind = "absent" THEN << >>
                          ELSE IF f.kind = "json" THEN Credentials(f.data)
                          ELSE IF b.kind = "json" THEN Credentials(b.data)
                          ELSE << >> ]_vars

\* the same, for files that are text: what is not JSON is recovered from the
\* backup, and nothing is raised
C17_TextRead ==
    [][ \A t \in Threads :
            ReadStep(t) /\ files[tf[t]].kind # "undecodable"
            => LET f == files[tf[t]]
                   b == backups[tf[t]]
               IN  /\ files' = files
                   /\ backups' = backups
                   /\ result'[t].status # 500
                   /\ Credentials(regs'[t])
                        = IF f.kind = "absent" THEN << >>
                          ELSE IF f.kind = "json" THEN Credentials(f.data)
                          ELSE IF b.kind = "json" THEN Credentials(b.data)
                          ELSE << >> ]_vars

\* a reader got the backup's list for a file that is not JSON
C17_Recovered ==
    \E t \in Threads :
        /\ pc[t] = "done"
        /\ files[EventFile].kind = "bad"
        /\ result[t].status = 404
        /\ regs[t] = << PaidRecord >>

----------------------------------------------------------------------------
(* Submissions whose write can fail at any of its steps *)

\* one email per thread
SaveMenu(t) ==
    << RegisterReq(t, EventFile,
                   Email(<< "c", "d", "e", "f", "g" >>[t], FALSE, FALSE)) >>

InitSave ==
    /\ InitStore({ << >> }, { AbsentFile, JsonFile(TwoRecords) })
    /\ InitPay({ Gateway({}, {}) })
    /\ InitEvent({ TheEvent }, { 1 })
    /\ InitWriter({ << >> })
    /\ InitRequests([t \in Threads |-> SaveMenu(t)])

NextSave ==
    \/ \E t \in Threads :
          \/ Begin(t)
          \/ GetFileLock(t)
          \/ Acquire(t)
          \/ AddRead(t)
          \/ AddWrite(t)
          \/ AddReturn(t)
    \/ \E ok \in BOOLEAN : BackupCopy(EventFile, ok)
    \/ \E ok \in BOOLEAN : MakeTemp(EventFile, ok)
    \/ \E ok \in BOOLEAN : Dump(ok)
    \/ \E ok \in BOOLEAN : Rename(EventFile, ok)
    \/ RemoveTemp

SpecSave == InitSave /\ [][NextSave]_vars

\* thread t's record is in the list of a JSON file
Persisted(t, f) ==
    /\ f.kind = "json"
    /\ \E i \in 1 .. Len(f.data) :
           f.data[i].registration_id = req[t].new.registration_id

\* no registration is left half-persisted: an answered submission is in the
\* file exactly when it was answered with success
AllOrNothing ==
    \A t \in Threads :
        pc[t] = "done" =>
            /\ files[EventFile].kind # "bad"
            /\ (result[t].status = 200) <=> Persisted(t, files[EventFile])

\* C18: if the write raises inside atomic_add_registration the caller is told
\* the registration did not happen, the lock is released, the temp file is
\* discarded and the target file is what it was before the call; no
\* registration is left half-persisted.
C18_FailedSave ==
    /\ [] AllOrNothing
    /\ [][ \A t \in Threads :
            (pc[t] = "add_write" /\ pc'[t] = "done" /\ wpc = "raised")
            => /\ result'[t].status = 400
               /\ result'[t].details.msg = "Failed to save registration"
               /\ lk[t] \notin heldLocks'
               /\ files'[TempName] = AbsentFile
               /\ files'[EventFile] = old
               /\ files'[EventFile].kind # "bad"
               /\ ~ Persisted(t, files'[EventFile]) ]_vars

\* a submission was refused because its write raised after the temp file had
\* been created, beside a file that holds the records of the others
C18_Witness ==
    \E t \in Threads :
        /\ pc[t] = "done"
        /\ result[t].details.msg = "Failed to save registration"
        /\ wpc = "idle"
        /\ tmp # 0
        /\ old.kind = "json"
        /\ Len(old.data) > 0
        /\ files[EventFile] = old

----------------------------------------------------------------------------
(* Attendance: lookups by attendees and markings by the admin *)

AttendMenu(t) ==
    << MarkReq(1, EmailACaps, "full"),
       MarkReq(1, EmailB, "partial"),
       MarkReq(3, EmailA, "full"),
       CheckReq(1, Email("a", TRUE, TRUE)),
       CheckReq(2, EmailA),
       CheckReq(3, EmailB) >>

InitAttend ==
    /\ InitStore({ << >> }, { AbsentFile, JsonFile(TwoRecords) })
    /\ InitPay({ Gateway({}, {}) })
    /\ InitEvent({ TheEvent }, { 1 })
    /\ InitWriter({ << >> })
    /\ InitRequests([t \in Threads |-> AttendMenu(t)])

NextAttend ==
    \E t \in Threads :
        \/ Begin(t)
        \/ GetFileLock(t)
        \/ Acquire(t)
        \/ MarkRead(t)
        \/ SafeWrite(t)
        \/ AttendanceCheck(t)

SpecAttend == InitAttend /\ [][NextAttend]_vars

\* the step in which thread t's lookup or marking has scanned the file
ScanStep(t) ==
    \/ req[t].kind = "check" /\ pc[t] = "start" /\ pc'[t] = "done"
    \/ req[t].kind = "mark" /\ pc[t] = "rd" /\ pc'[t] # "rd"

\* record reg carries the credential and, case aside, the email of thread
\* t's request
BothMatch(t, reg) ==
    /\ reg.registration_id = req[t].regid
    /\ Lower(Strip(reg.submitter_email)) = Lower(Strip(req[t].email))

NotFound(kind) ==
    Response(404,
             IF kind = "check"
             THEN "Registration not found. Please check your email and registration ID."
             ELSE "Registration not found",
             NoError, 0)

\* C19: attendance lookup and marking resolve a registration only when both
\* the credential and the submitter email (case-insensitive) match the same
\* record of the event's file; when either does not match the result is 'not
\* found', the file is unchanged, and the response is the same whichever of
\* the two was wrong.
C19_BothMustMatch ==
    [][ \A t \in Threads :
            ScanStep(t)
            => LET onfile == Stored(EventFile)
               IN  /\ files' = files
                   /\ \A i \in 1 .. Len(regs'[t]) :
                          regs'[t][i] # onfile[i] => BothMatch(t, onfile[i])
                   /\ IF \E i \in 1 .. Len(onfile) : BothMatch(t, onfile[i])
                      THEN IF req[t].kind = "check"
                           THEN /\ result'[t].status = 200
                                /\ result'[t].registration_id = req[t].regid
                           ELSE /\ pc'[t] = "getlock"
                                /\ \E i \in 1 .. Len(onfile) :
                                       /\ BothMatch(t, onfile[i])
                                       /\ regs'[t][i].marked_by = "admin"
                      ELSE /\ pc'[t] = "done"
                           /\ result'[t] = NotFound(req[t].kind) ]_vars

\* a marking with the credential of one record and the email of another, and
\* a lookup with an unknown credential, were both answered 'not found' beside
\* a marking that went through
C19_Witness ==
    \E t, u, v \in Threads :
        /\ pc[t] = "done" /\ req[t] = MarkReq(1, EmailB, "partial")
        /\ result[t].status = 404
        /\ pc[u] = "done" /\ req[u] = CheckReq(3, EmailB)
        /\ result[u].status = 404
        /\ pc[v] = "done" /\ req[v] = MarkReq(1, EmailACaps, "full")
        /\ result[v].status = 200
        /\ Stored(EventFile)[1].marked_by = "admin"
        /\ Stored(EventFile)[2].marked_by = None

----------------------------------------------------------------------------
(* One admin marking attendance while attendees look their records up *)

\* the file after the first attendee registered a second time with the same
\* credential and email
ThreeRecords == Append(TwoRecords, [PaidRecord EXCEPT !.id = 3])

MarkMenu(t) ==
    IF t = 1
    THEN << MarkReq(1, EmailACaps, "full"),
            MarkReq(2, EmailB, "partial"),
            MarkReq(1, EmailB, "full") >>
    ELSE << CheckReq(1, EmailA),
            CheckReq(2, EmailB),
            CheckReq(3, EmailB) >>

InitMark ==
    /\ InitStore({ << >>, AgedTable },
                 { JsonFile(TwoRecords), JsonFile(ThreeRecords) })
    /\ InitPay({ Gateway({}, {}) })
    /\ InitEvent({ TheEvent }, { 1 })
    /\ InitWriter({ << >> })
    /\ InitRequests([t \in Threads |-> MarkMenu(t)])

SpecMark == InitMark /\ [][NextAttend]_vars

\* the fields a marking may not touch
KeptFields(reg) ==
    << reg.id, reg.registration_id, reg.submitter_email, reg.payment_status,
       reg.payment_id, reg.payment_order_id >>

\* C20: a successful attendance marking, run without concurrent writers,
\* changes only the attendance fields of the single record that matches both
\* credential and email; every other record, and the id, credential, email
\* and payment fields of the matched record, are left unchanged.
C20_OnlyAttendanceFields ==
    [][ \A t \in Threads :
            (req[t].kind = "mark" /\ pc[t] = "wr" /\ pc'[t] = "done")
            => LET before == Stored(EventFile)
                   after == files'[EventFile].data
               IN  /\ result'[t].status = 200
                   /\ files'[EventFile].kind = "json"
                   /\ Len(after) = Len(before)
                   /\ \E i \in 1 .. Len(before) :
                          /\ BothMatch(t, before[i])
                          /\ after[i].marked_by = "admin"
                          /\ after[i].attendance_status
                               = MarkedStatus(req[t].attendance_type)
                          /\ KeptFields(after[i]) = KeptFields(before[i])
                          /\ \A j \in 1 .. Len(before) :
                                 j # i => after[j] = before[j] ]_vars

\* the admin marked the first of two records that carry the same credential
\* and email; the second of them and the other attendee's are as they were
C20_Witness ==
    /\ pc[1] = "done"
    /\ result[1].status = 200
    /\ Len(Stored(EventFile)) = 3
    /\ Stored(EventFile)[1]
         = [PaidRecord EXCEPT !.attendance_status = "entered",
                              !.attendance_comment = Comment("", 0, 0),
                              !.marked_by = "admin", !.entry_time = 1]
    /\ Stored(EventFile)[2] = FreeRecord
    /\ Stored(EventFile)[3] = [PaidRecord EXCEPT !.id = 3]

----------------------------------------------------------------------------
(* Markings of one registration in every mode, through both endpoints *)

\* the longest participant_attendance array of a request
MaxFlags == 2

RECURSIVE Arrays(_)
\* the boolean arrays of length n or less
Arrays(n) ==
    IF n = 0 THEN { << >> }
    ELSE LET shorter == Arrays(n - 1)
         IN  shorter \cup { Append(a, b) : a \in shorter, b \in BOOLEAN }

Markings ==
    { MarkFlagsReq(endpoint, 1, EmailA, flags) :
          endpoint \in { "form", "api" }, flags \in Arrays(MaxFlags) }
    \cup { [MarkReq(1, EmailA, type) EXCEPT !.endpoint = endpoint] :
              type \in { "full", "partial" }, endpoint \in { "form", "api" } }

\* threads 1 and 2 mark the first record, the others look it up
InitFlags ==
    /\ InitStore({ << >> }, { JsonFile(TwoRecords) })
    /\ InitPay({ Gateway({}, {}) })
    /\ InitEvent({ TheEvent }, { 1 })
    /\ InitWriter({ << >> })
    /\ \E a, b \in Markings :
          req = [t \in Threads |-> IF t = 1 THEN a
                                   ELSE IF t = 2 THEN b
                                   ELSE CheckReq(1, EmailA)]

SpecFlags == InitFlags /\ [][NextAttend]_vars

\* thread t's marking in 'participants' mode is written to the file
FlagsWritten(t) ==
    /\ req[t].kind = "mark"
    /\ req[t].attendance_type = "participants"
    /\ req[t].participant_attendance.sent
    /\ pc[t] = "wr"
    /\ pc'[t] = "done"

\* C21: in 'participants' mode, for every submitted boolean array (all-false
\* and empty included), the status is 'entered' if all flags are true,
\* 'partially_present' if some are, 'not_entered' if none is, and the comment
\* is 'X/Y participants present'; both endpoints agree.
C21_ParticipantsResult ==
    [][ \A t \in Threads :
            FlagsWritten(t)
            => LET flags == req[t].participant_attendance.flags
                   x == Cardinality({ i \in DOMAIN flags : flags[i] })
                   y == Len(flags)
                   reg == files'[EventFile].data[1]
               IN  /\ reg.attendance_comment
                        = Comment("participants present", x, y)
                   /\ reg.participant_attendance = flags
                   /\ x = y /\ y > 0 => reg.attendance_status = "entered"
                   /\ 0 < x /\ x < y
                        => reg.attendance_status = "partially_present"
                   /\ x = 0 /\ y > 0 => reg.attendance_status = "not_entered"
                   /\ y = 0 => reg.attendance_status
                                 \in { "entered", "not_entered" } ]_vars

\* the same for arrays with at least one flag
C21_NonEmptyArrays ==
    [][ \A t \in Threads :
            FlagsWritten(t) /\ req[t].participant_attendance.flags # << >>
            => LET flags == req[t].participant_attendance.flags
                   x == Cardinality({ i \in DOMAIN flags : flags[i] })
                   y == Len(flags)
                   reg == files'[EventFile].data[1]
               IN  /\ reg.attendance_comment
                        = Comment("participants present", x, y)
                   /\ reg.participant_attendance = flags
                   /\ x = y => reg.attendance_status = "entered"
                   /\ 0 < x /\ x < y
                        => reg.attendance_status = "partially_present"
                   /\ x = 0 => reg.attendance_status = "not_entered" ]_vars

\* what a marking leaves for the attendee to read
Outcome(reg) ==
    << reg.attendance_status, reg.attendance_comment,
       reg.participant_attendance >>

\* the file shows the marking of thread u, which has returned
ShowsMarkOf(u) ==
    /\ req[u].kind = "mark"
    /\ pc[u] = "done"
    /\ result[u].status = 200
    /\ Outcome(Stored(EventFile)[1]) = Outcome(regs[u][1])

\* C22: marking is idempotent and last-writer-wins: a second marking with the
\* same arguments leaves the status, comment and participant_attendance of
\* the first; a marking leaves exactly the status it would produce alone,
\* whatever the status before; every successful mark sets entry_time and
\* marked_by.
C22_LastMarkWins ==
    [][ \A t \in Threads :
            /\ (req[t].kind = "mark" /\ pc[t] = "rd" /\ pc'[t] = "getlock")
               => \A u \in Threads \ {t} :
                      (req[u] = req[t] /\ ShowsMarkOf(u))
                      => Outcome(regs'[t][1]) = Outcome(Stored(EventFile)[1])
            /\ (req[t].kind = "mark" /\ pc[t] = "wr" /\ pc'[t] = "done")
               => LET reg == files'[EventFile].data[1]
                      flags == req[t].participant_attendance.flags
                      x == Cardinality({ i \in DOMAIN flags : flags[i] })
                  IN  /\ result'[t].status = 200
                      /\ reg.entry_time = today
                      /\ reg.entry_time # 0
                      /\ reg.marked_by = "admin"
                      /\ reg.attendance_status
                           = IF req[t].attendance_type = "partial"
                             THEN "partially_present"
                             ELSE IF req[t].attendance_type = "full"
                                     \/ x = Len(flags)
                             THEN "entered"
                             ELSE IF x > 0 THEN "partially_present"
                             ELSE "not_entered" ]_vars

\* the admin marked no participant present and then, the first marking
\* written, marked the same registration partially present
C22_Witness ==
    /\ Len(lockOrder) >= 4
    /\ req[1] = MarkFlagsReq("form", 1, EmailA, << FALSE >>)
    /\ req[2] = [MarkReq(1, EmailA, "partial") EXCEPT !.endpoint = "api"]
    /\ SubSeq(lockOrder, 1, 4) = << 1, 1, 2, 2 >>
    /\ pc[2] = "done"
    /\ Stored(EventFile)[1].attendance_status = "partially_present"
    /\ Stored(EventFile)[1].participant_attendance = << FALSE >>

----------------------------------------------------------------------------
(* The lock table at its ceiling while other requests hold locks *)

\* the locks of the first k entries of the full table are held by requests
\* that do not return
HeldByOthers(k) == { OldEntry(i).lock : i \in 1 .. k }

TableMenu(t) ==
    << RegisterReq(t, EventFile, EmailA),
       RegisterReq(t, 2, EmailB) >>

InitTable ==
    /\ InitLocks({ FullOfOthers, AgedTable },
                 { HeldByOthers(k) :
                     k \in { 0, 1, _MAX_FILE_LOCKS \div 2,
                             _MAX_FILE_LOCKS - 1, _MAX_FILE_LOCKS } })
    /\ files = [p \in Paths \cup {TempName} |-> AbsentFile]
    /\ backups = [p \in Paths |-> AbsentFile]
    /\ InitPay({ Gateway({}, {}) })
    /\ InitEvent({ TheEvent }, { 1 })
    /\ InitWriter({ << >> })
    /\ InitRequests([t \in Threads |-> TableMenu(t)])

SpecTable == InitTable /\ [][NextAppend]_vars

\* C23: in every reachable state the lock table holds at most
\* _MAX_FILE_LOCKS entries, for any set of held locks and any sequence of
\* distinct paths.
C23_TableBounded == Len(file_locks) <= _MAX_FILE_LOCKS

\* the table passes the ceiling only on a call that finds every lock held
C23_GrowsOnlyWhenAllHeld ==
    [][Len(file_locks') > _MAX_FILE_LOCKS /\ Len(file_locks') > Len(file_locks)
       => \A i \in 1 .. Len(file_locks) : file_locks[i].lock \in heldLocks]_vars

----------------------------------------------------------------------------
(* The handlers' calls to the payment gateway and to the mail server *)

\* requests.post / requests.get is sent: the thread waits for the gateway
CallGateway(t) ==
    /\ pc[t] = "start"
    /\ req[t].gateway
    /\ pc' = [pc EXCEPT ![t] = "gateway"]
    /\ UNCHANGED << file_locks, heldLocks, nextLock, files, backups, req,
                    stage, tf, lk, regs, todo, result, lockOrder >>
    /\ UNCHANGED << payVars, writeVars >>

\* the gateway answers or the call fails: payment_verify goes on to save
\* only after its checks of the payment, api_register_event answers with the
\* order and saves nothing
GatewayReturn(t, net) ==
    /\ pc[t] = "gateway"
    /\ IF req[t].kind = "verify"
       THEN LET pid == req[t].new.payment_id
                oid == req[t].new.payment_order_id
                data == RegistrationData(req[t].new.submitter_email,
                                         req[t].new.registration_id,
                                         Templates[1].payment_amount)
                reply == GatewayGet(payments, pid, net)
                verdict == VerifyVerdict(pid, oid, Hmac(key_secret, oid, pid),
                                         data, reply)
            IN  /\ UNCHANGED orders
                /\ IF verdict = "ok"
                   THEN /\ pc' = [pc EXCEPT ![t] = "getlock"]
                        /\ stage' = [stage EXCEPT ![t] = "add"]
                        /\ tf' = [tf EXCEPT ![t] = req[t].file]
                        /\ UNCHANGED result
                   ELSE /\ pc' = [pc EXCEPT ![t] = "done"]
                        /\ result' = [result EXCEPT ![t] =
                              Response(VerdictStatus(verdict), verdict,
                                       NoError, 0)]
                        /\ UNCHANGED << stage, tf >>
       ELSE /\ pc' = [pc EXCEPT ![t] = "done"]
            /\ UNCHANGED << stage, tf >>
            /\ IF net = "ok" /\ Cardinality(orders) < MaxOrders
               THEN /\ orders' = orders \cup {Order(Cardinality(orders) + 1)}
                    /\ result' = [result EXCEPT ![t] =
                          Response(200, None, NoError,
                                   req[t].new.registration_id)]
               ELSE /\ UNCHANGED orders
                    /\ result' = [result EXCEPT ![t] =
                          Response(400, "Failed to create payment order",
                                   NoError, 0)]
    /\ UNCHANGED << file_locks, heldLocks, nextLock, files, backups, req, lk,
                    regs, todo, lockOrder >>
    /\ UNCHANGED << nextUuid, payments, call, resp, wrote, mail, echoed,
                    event, today, local_events >>
    /\ UNCHANGED writeVars

\* send_registration_email returns; then the handler's success response
MailReturn(t) ==
    /\ pc[t] = "mail"
    /\ mail' = Mail(req[t].new.submitter_email, req[t].new.registration_id)
    /\ result' = [result EXCEPT ![t] =
          Response(200, None, NoError, req[t].new.registration_id)]
    /\ pc' = [pc EXCEPT ![t] = "done"]
    /\ UNCHANGED << file_locks, heldLocks, nextLock, files, backups, req,
                    stage, tf, lk, regs, todo, lockOrder >>
    /\ UNCHANGED << nextUuid, orders, payments, call, resp, wrote, echoed,
                    event, today, local_events >>
    /\ UNCHANGED writeVars

\* a free submission, a paid one, and the verification of a payment
ExternalMenu(t) ==
    << WithMail(RegisterReq(t, EventFile, EmailA)),
       WithGateway(RegisterReq(t, EventFile, EmailB)),
       WithGateway(VerifyReq(t, EmailC, 1)) >>

InitExternal ==
    /\ InitStore({ << >> }, { AbsentFile })
    /\ InitPay({ Gateway({Order(1)}, {Payment(1, 1, "captured")}) })
    /\ InitEvent({ TheEvent }, { 1 })
    /\ InitWriter({ << >> })
    /\ InitRequests([t \in Threads |-> ExternalMenu(t)])

NextExternal ==
    \E t \in Threads :
        \/ Begin(t)
        \/ GetFileLock(t)
        \/ Acquire(t)
        \/ AddRead(t)
        \/ AddCommit(t)
        \/ CallGateway(t)
        \/ \E net \in { "ok", "down", "raise" } : GatewayReturn(t, net)
        \/ MailReturn(t)

SpecExternal == InitExternal /\ [][NextExternal]_vars

InExternalCall(t) == pc[t] \in { "gateway", "mail" }

\* C24: while a thread is inside a call to the payment gateway or to the
\* mail server it holds no file lock: every lock that is held belongs to
\* another thread inside its critical section, and a thread that waits for
\* a lock while nobody is in a critical section can take it.
C24_NoLockInExternalCall ==
    \A t \in Threads :
        InExternalCall(t) =>
            /\ \A l \in heldLocks :
                  \E u \in Threads \ {t} : InCriticalSection(u) /\ lk[u] = l
            /\ \A u \in Threads \ {t} :
                  (pc[u] = "acquire" /\ \A v \in Threads : ~ InCriticalSection(v))
                  => ~ locked(lk[u], heldLocks)

\* one thread waits for the gateway, one for the mail server, and a third is
\* inside its critical section on the same file
C24_Witness ==
    \E t, u, v \in Threads :
        /\ pc[t] = "gateway" /\ pc[u] = "mail" /\ InCriticalSection(v)
        /\ tf[u] = tf[v]

----------------------------------------------------------------------------
(* api_register_event: the validation of the submitted form, lines 835-985 *)

\* the characters of the texts below
Letters ==
    { "a", "b", "c", "d", "e", "g", "h", "i", "k", "l", "m", "n", "o", "u",
      "x", "y" }

\* the letters of a text (Email(name, ...)), one character at a time
Spell ==
    "" :> << >>
    @@ "x" :> << "x" >>
    @@ "a@gmail.com" :> << "a", "@", "g", "m", "a", "i", "l", ".", "c", "o", "m" >>
    @@ "b@kongu.edu" :> << "b", "@", "k", "o", "n", "g", "u", ".", "e", "d", "u" >>
    @@ "c@kongu.edu" :> << "c", "@", "k", "o", "n", "g", "u", ".", "e", "d", "u" >>
    @@ "d@gmail.com" :> << "d", "@", "g", "m", "a", "i", "l", ".", "c", "o", "m" >>
    @@ "a@yahoo.com" :> << "a", "@", "y", "a", "h", "o", "o", ".", "c", "o", "m" >>
    @@ "a.gmail.com" :> << "a", ".", "g", "m", "a", "i", "l", ".", "c", "o", "m" >>
    @@ "a@gmail.c" :> << "a", "@", "g", "m", "a", "i", "l", ".", "c" >>
    @@ "a@b@gmail.com" :>
           << "a", "@", "b", "@", "g", "m", "a", "i", "l", ".", "c", "o", "m" >>

\* config.ALLOWED_EMAIL_DOMAINS
ALLOWED_EMAIL_DOMAINS ==
    { << "k", "o", "n", "g", "u", ".", "e", "d", "u" >>,
      << "k", "o", "n", "g", "u", ".", "a", "c", ".", "i", "n" >>,
      << "g", "m", "a", "i", "l", ".", "c", "o", "m" >> }

\* re.match(r'^[a-zA-Z0-9._%+-]+@[a-zA-Z0-9.-]+\.[a-zA-Z]{2,}$', s): a local
\* part, '@', a domain part, '.', and two or more letters up to the end
email_pattern(s) ==
    \E at, dot \in 1 .. Len(s) :
        /\ at > 1
        /\ \A i \in 1 .. at - 1 : s[i] \in Letters \cup { ".", "_", "%", "+", "-" }
        /\ s[at] = "@"
        /\ dot > at + 1
        /\ \A i \in at + 1 .. dot - 1 : s[i] \in Letters \cup { ".", "-" }
        /\ s[dot] = "."
        /\ Len(s) - dot >= 2
        /\ \A i \in dot + 1 .. Len(s) : s[i] \in Letters

\* re.match(email_pattern, text): surrounding whitespace does not match
re_match(text) == ~ text.pad /\ email_pattern(Spell[text.name])

\* text.split('@')[1].lower()
email_domain(text) ==
    LET s == Spell[text.name]
        ats == { i \in 1 .. Len(s) : s[i] = "@" }
        first == CHOOSE i \in ats : \A j \in ats : i <= j
        rest == ats \ {first}
        end == IF rest = {} THEN Len(s)
               ELSE (CHOOSE i \in rest : \A j \in rest : i <= j) - 1
    IN  SubSeq(s, first + 1, end)

\* the two checks every email goes through: format, then domain
email_error(text) ==
    IF ~ re_match(text) THEN "format"
    ELSE IF email_domain(text) \notin ALLOWED_EMAIL_DOMAINS THEN "domain"
    ELSE "ok"

\* a field of a template, in custom_fields (current) or fields (legacy)
Field(name, label, type, required, unique) ==
    [name |-> name, type |-> type, label |-> label, required |-> required,
     unique |-> unique]

\* a template of data/form_templates.json with its participants and fields
FormTemplate(payment_enabled, min_participants, max_participants, custom_fields, fields) ==
    [ found |-> TRUE, active |-> TRUE, payment_enabled |-> payment_enabled,
      payment_amount |-> IF payment_enabled THEN 100 ELSE 0,
      min_participants |-> min_participants,
      max_participants |-> max_participants,
      custom_fields |-> custom_fields, fields |-> fields ]

\* templates 3 and 5 declare one or two participants, two required fields
\* in the current list and a required, unique email in the legacy list, and
\* 5 asks for a payment;
\* template 4 declares zero to two participants and a unique email in the
\* current list
FormTemplates ==
    3 :> FormTemplate(FALSE, 1, 2,
             << Field("college", "College", "text", TRUE, FALSE),
                Field("department", "Department", "text", TRUE, FALSE) >>,
             << Field("alt_email", "Alternate Email", "email", TRUE, TRUE) >>)
    @@
    4 :> FormTemplate(FALSE, 0, 2,
             << Field("contact_email", "Contact Email", "email", FALSE, TRUE) >>,
             << >>)
    @@
    5 :> FormTemplate(TRUE, 1, 2,
             << Field("college", "College", "text", TRUE, FALSE),
                Field("department", "Department", "text", TRUE, FALSE) >>,
             << Field("alt_email", "Alternate Email", "email", TRUE, TRUE) >>)

NoFormTemplate ==
    [FormTemplate(FALSE, 1, 1, << >>, << >>)
        EXCEPT !.found = FALSE, !.active = FALSE]

FindFormTemplate(template_id) ==
    IF template_id \in DOMAIN FormTemplates THEN FormTemplates[template_id]
    ELSE NoFormTemplate

\* data.get('num_participants'): sent or not
Count(sent, n) == [sent |-> sent, n |-> n]

\* participant_{i}_name, participant_{i}_roll, participant_{i}_email
Slot(name, roll, email) == [name |-> name, email |-> email, roll_no |-> roll]
NoSlot == Slot(NoEmail, NoEmail, NoEmail)

\* request.get_json() of a submission; registration_id 0 and payment_amount
\* 0 stand for keys that are not in the payload
Form(template_id, submitter_email, count, slots, answers) ==
    [ registration_id |-> 0, submitter_email |-> submitter_email,
      payment_amount |-> 0, template_id |-> template_id, phone |-> TRUE,
      slots |-> slots, answers |-> answers, num_participants |-> count,
      participants |-> << >> ]

\* data.get(field_name, '')
get(data, field_name) ==
    IF field_name \in DOMAIN data.answers THEN data.answers[field_name]
    ELSE NoEmail

\* the loop over the participants, lines 899-936: the first failure
RECURSIVE FirstBadParticipant(_, _, _)
FirstBadParticipant(data, i, num_participants) ==
    IF i > num_participants THEN [error |-> None, index |-> 0]
    ELSE LET slot == IF i <= Len(data.slots) THEN data.slots[i] ELSE NoSlot
             participant_email == Strip(slot.email)
         IN  IF Strip(slot.name) = NoEmail
             THEN [error |-> "name is required", index |-> i]
             ELSE IF Strip(slot.roll_no) = NoEmail
             THEN [error |-> "roll number is required", index |-> i]
             ELSE IF participant_email = NoEmail
             THEN [error |-> "email is required", index |-> i]
             ELSE IF email_error(participant_email) = "format"
             THEN [error |-> "has invalid email format", index |-> i]
             ELSE IF email_error(participant_email) = "domain"
             THEN [error |-> "email domain not allowed", index |-> i]
             ELSE FirstBadParticipant(data, i + 1, num_participants)

\* the participants list built by the loop
Participants(data, num_participants) ==
    [ i \in 1 .. num_participants |->
        LET slot == IF i <= Len(data.slots) THEN data.slots[i] ELSE NoSlot
        IN  Slot(Strip(slot.name), Strip(slot.roll_no), Strip(slot.email)) ]

\* a required field with no value: not str(data.get(field_name, '')).strip()
is_missing(field, data) ==
    field.required /\ Strip(get(data, field.name)) = NoEmail

\* missing_fields after the loop over one list: only the first label
MissingFirstOnly(list, data) ==
    LET missing == SelectSeq(list, LAMBDA field : is_missing(field, data))
    IN  IF missing = << >> THEN << >> ELSE << missing[1].label >>

\* missing_fields after the loop over one list, lines 945-949 and 953-957
Missing(list, data) ==
    LET missing == SelectSeq(list, LAMBDA field : is_missing(field, data))
    IN  [i \in 1 .. Len(missing) |-> missing[i].label]

\* the loop over the email fields, lines 966-985: the first failure
RECURSIVE FirstBadEmailField(_, _, _)
FirstBadEmailField(list, i, data) ==
    IF i > Len(list) THEN [error |-> None, index |-> 0]
    ELSE LET email_value == Strip(get(data, list[i].name))
         IN  IF list[i].type = "email" /\ email_value # NoEmail
                /\ email_error(email_value) # "ok"
             THEN [error |-> email_error(email_value), index |-> i]
             ELSE FirstBadEmailField(list, i + 1, data)

\* what the validation answers: the error (None when the form passed), the
\* participant it is about, the labels it lists, and data as it goes on
Verdict(error, index, missing, data) ==
    [data |-> data, error |-> error, index |-> index, missing |-> missing]

FormVerdict(template_definition, data) ==
    LET submitter_email == Strip(data.submitter_email)
        min_participants == template_definition.min_participants
        max_participants == template_definition.max_participants
        counted == min_participants # 0 /\ max_participants # 0
        num_participants == IF data.num_participants.sent
                            THEN data.num_participants.n
                            ELSE min_participants
        bad == FirstBadParticipant(data, 1, num_participants)
        missing_fields == Missing(template_definition.custom_fields, data)
                          \o Missing(template_definition.fields, data)
        bad_field == FirstBadEmailField(template_definition.fields, 1, data)
        Rejected(error) == Verdict(error, 0, << >>, data)
    IN  IF submitter_email = NoEmail
        THEN Rejected("Submitter email is required")
        ELSE IF email_error(submitter_email) = "format"
        THEN Rejected("Invalid email format")
        ELSE IF email_error(submitter_email) = "domain"
        THEN Rejected("Email domain not allowed")
        ELSE IF ~ template_definition.found
        THEN Verdict(None, 0, << >>, data)
        ELSE IF ~ template_definition.active
        THEN Rejected("Registration form is inactive")
        ELSE IF counted /\ (num_participants < min_participants
                            \/ num_participants > max_participants)
        THEN Rejected("Number of participants must be between")
        ELSE IF counted /\ bad.index # 0
        THEN Verdict(bad.error, bad.index, << >>, data)
        ELSE IF missing_fields # << >>
        THEN Verdict("Missing required fields", 0, missing_fields, data)
        ELSE IF bad_field.index # 0
        THEN Rejected(IF bad_field.error = "format"
                      THEN "Invalid email format for"
                      ELSE "Email domain not allowed")
        ELSE Verdict(None, 0, << >>,
                 IF counted
                 THEN [data EXCEPT
                         !.participants = Participants(data, num_participants),
                         !.num_participants = Count(TRUE, num_participants)]
                 ELSE data)

\* the record of a form: data with the keys the handlers add to it
FormRecord(data, cred, pstatus, pid, oid) ==
    [ id |-> 0, registration_id |-> cred,
      submitter_email |-> data.submitter_email, payment_status |-> pstatus,
      payment_id |-> pid, payment_order_id |-> oid,
      attendance_status |-> "not_entered", attendance_comment |-> NoComment,
      marked_by |-> None, participant_attendance |-> << >>, entry_time |-> 0,
      template_id |-> data.template_id,
      answers |-> data.answers,
      num_participants |-> data.num_participants, participants |-> data.participants ]

\* check_duplicates, lines 1091-1103: the unique email fields of the
\* template's legacy list; the error names the field by its label
RECURSIVE check_unique_fields(_, _, _, _)
check_unique_fields(list, i, registrations, new_reg) ==
    IF i > Len(list) THEN NoError
    ELSE LET field == list[i]
             email_value == Lower(Strip(get(new_reg, field.name)))
         IN  IF /\ field.type = "email" /\ field.unique
                /\ field.name # "submitter_email"
                /\ email_value # NoEmail
                /\ \E j \in 1 .. Len(registrations) :
                      Lower(Strip(get(registrations[j], field.name)))
                          = email_value
             THEN ErrorMsg(field.label, email_value)
             ELSE check_unique_fields(list, i + 1, registrations, new_reg)

\* api_register_event for a submitted form: validation, the checks of the
\* event, then the order for a paid template or the commit
Register(data, net, qr) ==
    /\ nextUuid <= MaxUuid
    /\ LET template_definition == FindFormTemplate(data.template_id)
           verdict == FormVerdict(template_definition, data)
           reg_file == event.registration_file
           registration_uuid == nextUuid
           payment_amount == template_definition.payment_amount
           paid == /\ template_definition.found
                   /\ template_definition.payment_enabled
           new == FormRecord(verdict.data, registration_uuid,
                             IF paid THEN "pending" ELSE "not_required", 0, 0)
           registrations == LoadOrEmpty(files[reg_file])
           unique == IF template_definition.found
                     THEN check_unique_fields(template_definition.fields, 1,
                                              registrations, new)
                     ELSE NoError
           out == AddOutcome("register", registrations, new)
           Reject(error, details) ==
               /\ resp' = Reply(400, error, details, 0, 0, NoData)
               /\ mail' = NoMail
               /\ UNCHANGED << files, backups, nextUuid, orders, echoed >>
       IN  /\ call' = Call("register", data.template_id, 0, 0,
                           Hmac(None, 0, 0), data, reg_file,
                           GatewayReply(0, None, 0, 0), event, today)
           /\ IF verdict.error # None
              THEN Reject(verdict.error, verdict)
              ELSE IF registration_not_enabled(event)
              THEN Reject("Registration is not enabled for this event", NoError)
              ELSE IF registration_closed(event)
              THEN Reject("Registration is currently closed for this event",
                          NoError)
              ELSE IF DeadlineRejects(event.registration_deadline, today)
              THEN Reject("Registration deadline has passed", NoError)
              ELSE IF paid /\ payment_amount > 0
              THEN /\ nextUuid' = nextUuid + 1
                   /\ mail' = NoMail
                   /\ UNCHANGED << files, backups >>
                   /\ IF ~ data.phone
                      THEN /\ resp' = Reply(400,
                                  "Phone number is required for payment",
                                  NoError, 0, 0, NoData)
                           /\ UNCHANGED << orders, echoed >>
                      ELSE IF net = "ok" /\ Cardinality(orders) < MaxOrders
                      THEN LET order == Order(Cardinality(orders) + 1)
                           IN  /\ orders' = orders \cup {order}
                               /\ echoed' = echoed \cup {registration_uuid}
                               /\ resp' = Reply(200, None, NoError, 0, order.id,
                                     [verdict.data EXCEPT
                                        !.registration_id = registration_uuid,
                                        !.payment_amount = payment_amount])
                      ELSE /\ resp' = Reply(400,
                                  "Failed to create payment order",
                                  NoError, 0, 0, NoData)
                           /\ UNCHANGED << orders, echoed >>
              ELSE /\ nextUuid' = nextUuid + 1
                   /\ UNCHANGED << orders, echoed >>
                   /\ IF out.success /\ unique = NoError
                      THEN /\ files' = [files EXCEPT
                                  ![reg_file] = JsonFile(out.registrations)]
                           /\ backups' = [backups EXCEPT ![reg_file] =
                                  BackupAfterWrite(files[reg_file], @)]
                           /\ mail' = IF qr
                                      THEN Mail(data.submitter_email,
                                                registration_uuid)
                                      ELSE NoMail
                           /\ resp' = Reply(200, None, NoError,
                                            registration_uuid, 0, NoData)
                      ELSE /\ resp' = Reply(400, "Registration failed",
                                  IF out.success THEN unique
                                  ELSE out.error_msg, 0, 0, NoData)
                           /\ mail' = NoMail
                           /\ UNCHANGED << files, backups >>
    /\ wrote' = (files' # files)
    /\ UNCHANGED << storeVars, writeVars, payments, event, today, local_events >>

\* payment_verify for the payload of a form: the checks of the payment, then
\* the commit of registration_data as it was sent
VerifyForm(pid, oid, data, net, qr) ==
    /\ data.registration_id = 0 => nextUuid <= MaxUuid
    /\ LET razorpay_signature == Hmac(key_secret, oid, pid)
           file == event.registration_file
           reply == GatewayGet(payments, pid, net)
           verdict == VerifyVerdict(pid, oid, razorpay_signature,
                          RegistrationData(data.submitter_email,
                              data.registration_id, data.payment_amount),
                          reply)
           registration_uuid ==
               IF data.registration_id = 0 THEN nextUuid
               ELSE data.registration_id
           registration_data ==
               FormRecord(data, registration_uuid, "completed", pid, oid)
           out == AddOutcome("payment", LoadOrEmpty(files[file]),
                             registration_data)
       IN  /\ call' = Call("verify", data.template_id, pid, oid,
                           razorpay_signature, data, file, reply, event, today)
           /\ IF verdict # "ok"
              THEN /\ resp' = Reply(VerdictStatus(verdict), verdict, NoError,
                                    0, 0, NoData)
                   /\ mail' = NoMail
                   /\ UNCHANGED << files, backups, nextUuid >>
              ELSE /\ nextUuid' = IF data.registration_id = 0
                                  THEN nextUuid + 1 ELSE nextUuid
                   /\ IF out.success
                      THEN /\ files' = [files EXCEPT
                                  ![file] = JsonFile(out.registrations)]
                           /\ backups' = [backups EXCEPT ![file] =
                                  BackupAfterWrite(files[file], @)]
                           /\ mail' = IF qr
                                      THEN Mail(data.submitter_email,
                                                registration_uuid)
                                      ELSE NoMail
                           /\ resp' = Reply(200, None, NoError,
                                            registration_uuid, 0, NoData)
                      ELSE /\ resp' = Reply(400, out.error_msg.msg,
                                            out.error_msg, 0, 0, NoData)
                           /\ mail' = NoMail
                           /\ UNCHANGED << files, backups >>
    /\ wrote' = (files' # files)
    /\ UNCHANGED << storeVars, writeVars, orders, payments, echoed, event,
                    today, local_events >>

----------------------------------------------------------------------------
(* Forms submitted to an event whose file holds one earlier registration *)

Text(name) == Email(name, FALSE, FALSE)
\* whitespace only
Blank == Email("", FALSE, TRUE)
\* ' A@GMAIL.COM '
Padded == Email("a@gmail.com", TRUE, TRUE)

GoodSlot(name) == Slot(Text("x"), Text("x"), Text(name))

\* a form for template 3 or 5; college and department are filled in alike
Form3(template_id, email, count, slots, college, alt_email) ==
    Form(template_id, email, count, slots,
         "college" :> college @@ "department" :> college
         @@ "alt_email" :> alt_email)

\* a form for template 4
Form4(email, count, slots, contact_email) ==
    Form(4, email, count, slots, "contact_email" :> contact_email)

\* what browsers and other clients send to /api/register/<event_slug>
Forms ==
    { Form3(3, e, Count(TRUE, 1), << GoodSlot("b@kongu.edu") >>, Text("x"),
            Text(alt)) :
        e \in { Text("a@gmail.com"), Text("d@gmail.com"), Padded,
                Text("a@yahoo.com"), Text("a.gmail.com"), Text("a@gmail.c"),
                Text("a@b@gmail.com"), NoEmail, Blank },
        alt \in { "c@kongu.edu", "b@kongu.edu" } }
    \cup
    { Form3(3, Text("a@gmail.com"), count, slots, Text("x"),
            Text("b@kongu.edu")) :
        count \in { Count(FALSE, 0), Count(TRUE, 0), Count(TRUE, 2),
                    Count(TRUE, 3) },
        slots \in { << >>,
                    << GoodSlot("a@gmail.com") >>,
                    << GoodSlot("a@gmail.com"), GoodSlot("b@kongu.edu") >>,
                    << GoodSlot("a@gmail.com"), GoodSlot("a@yahoo.com") >>,
                    << GoodSlot("a@gmail.com"), GoodSlot("a.gmail.com") >>,
                    << GoodSlot("a@gmail.com"),
                       Slot(Text("x"), Blank, Text("b@kongu.edu")) >>,
                    << Slot(NoEmail, NoEmail, NoEmail),
                       Slot(Text("x"), NoEmail, NoEmail) >>,
                    << GoodSlot("a@gmail.com"),
                       Slot(Text("x"), Text("x"), Blank) >> } }
    \cup
    { Form3(3, Text("a@gmail.com"), Count(FALSE, 0), << GoodSlot("a@gmail.com") >>,
            college, alt) :
        college \in { Text("x"), NoEmail, Blank },
        alt \in { Text("b@kongu.edu"), NoEmail, Blank, Text("a@yahoo.com"),
                  Text("a.gmail.com") } }
    \cup
    { Form4(e, count, slots, contact) :
        e \in { Text("a@gmail.com"), Text("d@gmail.com") },
        count \in { Count(FALSE, 0), Count(TRUE, 1), Count(TRUE, 3) },
        slots \in { << >>, << GoodSlot("a.gmail.com") >> },
        contact \in { NoEmail, Text("c@kongu.edu"), Text("a@yahoo.com"),
                      Text("a.gmail.com") } }
    \cup
    { Form3(template_id, Text("d@gmail.com"), Count(TRUE, 1),
            << GoodSlot("b@kongu.edu") >>, college, Text("b@kongu.edu")) :
        template_id \in { 5, 9 }, college \in { Text("x"), NoEmail } }

\* what clients send to /payment/verify as registration_data: the payload
\* that api_register_event answered for a form of template 5, as it was or
\* with keys changed
Payloads ==
    { [Form3(5, e, count, slots, college, Text(alt))
          EXCEPT !.registration_id = 1, !.payment_amount = 100,
                 !.participants = slots] :
        e \in { Text("d@gmail.com"), Text("a@yahoo.com"), Text("a.gmail.com") },
        count \in { Count(TRUE, 1), Count(TRUE, 3) },
        slots \in { << GoodSlot("b@kongu.edu") >>, << GoodSlot("a.gmail.com") >> },
        college \in { Text("x"), NoEmail },
        alt \in { "b@kongu.edu", "c@kongu.edu", "a@yahoo.com" } }

\* the record that an accepted no-payment form left in the file
Accepted(data, cred) ==
    AssignId(<< >>,
        FormRecord(FormVerdict(FindFormTemplate(data.template_id), data).data,
                   cred, "not_required", 0, 0))

\* the event's file: not there yet, or with one registration
FormFiles ==
    { AbsentFile,
      JsonFile(<< Accepted(Form3(3, Text("a@gmail.com"), Count(TRUE, 1),
                                 << GoodSlot("a@gmail.com") >>, Text("x"),
                                 Text("c@kongu.edu")), 1) >>),
      JsonFile(<< Accepted(Form4(Text("a@gmail.com"), Count(FALSE, 0), << >>,
                                 Text("c@kongu.edu")), 1) >>) }

\* a request that has arrived and is not served yet
Received(endpoint, data) ==
    Call(endpoint, data.template_id, 0, 0, Hmac(None, 0, 0), data, EventFile,
         GatewayReply(0, None, 0, 0), TheEvent, 1)

InitForms ==
    /\ InitStore({ << >> }, FormFiles)
    /\ req = [t \in Threads |-> RegisterReq(t, EventFile, NoEmail)]
    /\ InitWriter({ << >> })
    /\ InitEvent({ TheEvent }, { 1 })
    /\ nextUuid = MaxUuid
    /\ orders = {Order(1)}
    /\ payments = {Payment(1, 1, "captured")}
    /\ call \in { Received("register", data) : data \in Forms }
               \cup { Received("verify", data) : data \in Payloads }
    /\ resp = NoReply
    /\ wrote = FALSE
    /\ mail = NoMail
    /\ echoed = {}

\* the request is served
NextForms ==
    /\ resp = NoReply
    /\ \/ /\ call.endpoint = "register"
          /\ \E net \in { "ok", "down" } :
                Register(call.registration_data, net, TRUE)
       \/ /\ call.endpoint = "verify"
          /\ VerifyForm(1, 1, call.registration_data, "ok", TRUE)

SpecForms == InitForms /\ [][NextForms]_vars

\* the request was answered
Served(endpoint) == call.endpoint = endpoint /\ resp # NoReply

\* C25: every registration in the file has a submitter email that is not
\* empty, has the shape local@domain.tld and a domain of the allow-list,
\* whichever handler committed it.
C25_ValidEmailStored ==
    \A i \in 1 .. Len(Stored(EventFile)) :
        email_error(Strip(Stored(EventFile)[i].submitter_email)) = "ok"

\* the same for the records that api_register_event commits
C25_DirectCommitValid ==
    (Served("register") /\ wrote)
    => email_error(Strip(Stored(EventFile)[Len(Stored(EventFile))]
                             .submitter_email)) = "ok"

\* the fields of a list, and the email fields that a template declares unique
FieldsOf(list) == { list[i] : i \in 1 .. Len(list) }

UniqueFields(list) ==
    { field \in FieldsOf(list) : field.type = "email" /\ field.unique }

\* no two records hold the same value, case aside, for one of these fields
NoRepeatedValue(fields) ==
    \A i, j \in 1 .. Len(Stored(EventFile)) :
        i < j =>
            \A field \in fields :
                LET value == Lower(Strip(get(Stored(EventFile)[j], field.name)))
                IN  value # NoEmail
                    => Lower(Strip(get(Stored(EventFile)[i], field.name)))
                           # value

\* C26: for every field that the template of a record declares unique, in
\* its current custom-field list or in its legacy list, no two records of
\* the event's file hold the same value, whichever handler committed them.
C26_UniqueFieldValues ==
    \A k \in 1 .. Len(Stored(EventFile)) :
        LET template_definition ==
                FindFormTemplate(Stored(EventFile)[k].template_id)
        IN  NoRepeatedValue(UniqueFields(template_definition.custom_fields)
                            \cup UniqueFields(template_definition.fields))

\* what api_register_event does keep: the unique fields of the legacy list
\* on its own commit, with a conflict that names the field
C26_LegacyListDirectCommit ==
    Served("register") =>
        LET data == call.registration_data
            fields == UniqueFields(FindFormTemplate(data.template_id).fields)
            repeated ==
                { field \in fields :
                    /\ Strip(get(data, field.name)) # NoEmail
                    /\ \E i \in 1 .. Len(Stored(EventFile)) :
                          /\ Stored(EventFile)[i].registration_id
                                 # resp.registration_id
                          /\ Lower(Strip(get(Stored(EventFile)[i], field.name)))
                                 = Lower(Strip(get(data, field.name))) }
        IN  /\ NoRepeatedValue(fields)
            /\ (repeated # {} /\ resp.error = "Registration failed"
                /\ resp.details.msg # "Email already registered")
               => \E field \in repeated : resp.details.msg = field.label
            /\ repeated # {} => resp.status # 200 \/ resp.order_id # 0

\* the labels of the required fields, of both lists, that data leaves blank
MissingLabels(template_definition, data) ==
    { field.label :
        field \in { f \in FieldsOf(template_definition.custom_fields)
                           \cup FieldsOf(template_definition.fields) :
                      f.required /\ Strip(get(data, f.name)) = NoEmail } }

\* participant i of data lacks a name, a roll number or a valid email
BadSlot(data, i) ==
    LET slot == IF i <= Len(data.slots) THEN data.slots[i] ELSE NoSlot
    IN  \/ Strip(slot.name) = NoEmail
        \/ Strip(slot.roll_no) = NoEmail
        \/ email_error(Strip(slot.email)) # "ok"

\* the number of participants that the template's limits are applied to
CountOf(template_definition, data) ==
    IF data.num_participants.sent THEN data.num_participants.n
    ELSE template_definition.min_participants

\* data passes every check that comes before the required fields
PassesUpToFields(template_definition, data) ==
    /\ email_error(Strip(data.submitter_email)) = "ok"
    /\ template_definition.found /\ template_definition.active
    /\ template_definition.min_participants > 0
    /\ CountOf(template_definition, data)
           \in template_definition.min_participants
               .. template_definition.max_participants
    /\ \A i \in 1 .. CountOf(template_definition, data) : ~ BadSlot(data, i)

ParticipantErrors ==
    { "name is required", "roll number is required", "email is required",
      "has invalid email format", "email domain not allowed" }

\* C27: a submission that leaves required fields blank is rejected with the
\* labels of all of them, from the current and the legacy list, in one
\* response; a rejection for a participant names the first participant that
\* fails; in both cases no file is written.
C27_AllMissingListed ==
    Served("register") =>
        LET data == call.registration_data
            template_definition == FindFormTemplate(data.template_id)
            missing == MissingLabels(template_definition, data)
        IN  /\ (PassesUpToFields(template_definition, data) /\ missing # {})
               => resp.error = "Missing required fields"
            /\ resp.error = "Missing required fields"
               => /\ { resp.details.missing[i] :
                         i \in 1 .. Len(resp.details.missing) } = missing
                  /\ Len(resp.details.missing) = Cardinality(missing)
                  /\ resp.status = 400 /\ ~ wrote
            /\ resp.error \in ParticipantErrors
               => /\ BadSlot(data, resp.details.index)
                  /\ \A i \in 1 .. resp.details.index - 1 : ~ BadSlot(data, i)
                  /\ resp.status = 400 /\ ~ wrote

\* a rejection that lists three labels, two of the current list and one of
\* the legacy list
C27_Witness ==
    /\ Served("register")
    /\ resp.error = "Missing required fields"
    /\ resp.details.missing = << "College", "Department", "Alternate Email" >>
    /\ ~ wrote

\* a rejection for the second participant of two
C27_SecondParticipant ==
    /\ Served("register")
    /\ resp.error \in ParticipantErrors
    /\ resp.details.index = 2

\* the submission was accepted with a number of participants inside the
\* template's limits, every participant complete, and as many participants
\* in the stored record as were counted
ParticipantsChecked(template_definition, data) ==
    LET count == CountOf(template_definition, data)
        stored == Stored(EventFile)[Len(Stored(EventFile))]
    IN  /\ count \in template_definition.min_participants
                     .. template_definition.max_participants
        /\ \A i \in 1 .. count : ~ BadSlot(data, i)
        /\ wrote => Len(stored.participants) = count

\* C28: for every template that declares min_participants and
\* max_participants, a minimum of 0 included, an accepted submission has a
\* participant count within [min, max], complete and valid participants
\* 1..count, and exactly count participants in the stored record.
C28_ParticipantsWithinLimits ==
    (Served("register") /\ resp.status = 200
     /\ FindFormTemplate(call.registration_data.template_id).found)
    => ParticipantsChecked(
           FindFormTemplate(call.registration_data.template_id),
           call.registration_data)

\* the same for the templates whose minimum is 1 or more
C28_WhenMinimumPositive ==
    (Served("register") /\ resp.status = 200
     /\ FindFormTemplate(call.registration_data.template_id).found
     /\ FindFormTemplate(call.registration_data.template_id)
            .min_participants > 0)
    => ParticipantsChecked(
           FindFormTemplate(call.registration_data.template_id),
           call.registration_data)

\* a field typed 'email', of either list, that data fills with a text that
\* is not a valid, allow-listed email
BadEmailFields(template_definition, data) ==
    { field \in FieldsOf(template_definition.custom_fields)
                    \cup FieldsOf(template_definition.fields) :
        /\ field.type = "email"
        /\ Strip(get(data, field.name)) # NoEmail
        /\ email_error(Strip(get(data, field.name))) # "ok" }

\* C29: a submission that fills an email-typed field, of the current
\* custom-field list or of the legacy list, with an invalid value is
\* rejected and no file is written.
C29_EmailFieldsChecked ==
    (Served("register")
     /\ BadEmailFields(FindFormTemplate(call.registration_data.template_id),
                       call.registration_data) # {})
    => resp.status = 400 /\ ~ wrote

\* the same for the email fields of the legacy list alone
C29_LegacyListChecked ==
    (Served("register")
     /\ \E field \in BadEmailFields(
                         FindFormTemplate(call.registration_data.template_id),
                         call.registration_data) :
           field \in FieldsOf(
               FindFormTemplate(call.registration_data.template_id).fields))
    => resp.status = 400 /\ ~ wrote

----------------------------------------------------------------------------
(* Failures of the payment gateway *)

\* payment_verify got as far as its call to the gateway, and the call failed:
\* no connection (code 0) or a response other than 200
ConfirmationFailed ==
    /\ call.endpoint = "verify"
    /\ call.razorpay_payment_id # 0 /\ call.razorpay_order_id # 0
    /\ call.registration_data # NoData
    /\ call.razorpay_signature
           = Hmac(key_secret, call.razorpay_order_id, call.razorpay_payment_id)
    /\ call.reply.code # 200

\* C30: a failed call to the payment gateway, a network error or a response
\* other than 2xx, is answered with a 400-class error and no registration is
\* written.
C30_GatewayFailureIs400 ==
    ConfirmationFailed => resp.status \in 400 .. 499 /\ ~ wrote

\* what does hold of every failed confirmation: an error, nothing written
C30_NothingPersisted ==
    ConfirmationFailed
    => resp.status \in { 400, 500 } /\ resp.registration_id = 0 /\ ~ wrote

----------------------------------------------------------------------------
(* Submissions under every payment configuration of the template *)

\* the payloads of /api/register/<event_slug>: a paid template, a free one,
\* and one with payment_enabled and an amount of zero
PendingSubmissions ==
    [ email : { EmailA, EmailB }, template_id : { 1, 2, 3 },
      net : { "ok", "down" }, phone : BOOLEAN, qr : { FALSE } ]

NextPending ==
    \/ \E r \in PendingSubmissions :
          Submit(r.email, r.template_id, r.phone, r.net, r.qr)
    \/ \E order \in orders, status \in {"captured", "authorized"} :
          Pay(order, status)
    \/ \E r \in Verifications :
          Verify(r.pid, r.oid, r.key,
                 RegistrationData(r.email, r.registration_id,
                                  r.payment_amount),
                 r.file, r.net, r.qr)

SpecPending == InitPayments /\ [][NextPending]_vars

\* C31: no stored registration has payment_status 'pending': every stored
\* record's payment_status is 'not_required', 'completed' or 'failed',
\* whatever the payment configuration of the template of the submission.
C31_NoPendingStored ==
    \A p \in Paths : \A i \in 1 .. Len(Stored(p)) :
        Stored(p)[i].payment_status \in { "not_required", "completed", "failed" }

\* on the payment branch (payment_enabled and a positive amount) a
\* submission writes nothing
C31_PaymentBranchStoresNothing ==
    (/\ call.endpoint = "register"
     /\ FindTemplate(call.template_id).payment_enabled
     /\ FindTemplate(call.template_id).payment_amount > 0) => ~ wrote

C31_PaymentBranchTaken ==
    /\ call.endpoint = "register"
    /\ call.template_id = 1
    /\ resp.status = 200
    /\ resp.order_id # 0

----------------------------------------------------------------------------
(* Webhook notifications, signed or not, with a submission and a marking *)

\* the gateway's notifications for order 1, the same bodies with no header
\* signature, with a signature under another key and with the signature of
\* another body, and a server without the secret
WebhookMenu(t) ==
    << RegisterReq(t, EventFile, EmailC),
       MarkReq(2, EmailB, "full"),
       WebhookReq("payment.failed", 1, 0),
       WebhookReq("payment.captured", 1, 2),
       SignedWith(WebhookReq("payment.failed", 1, 0), NoSignature),
       SignedWith(WebhookReq("payment.failed", 1, 0),
                  BodyHmac("guess", "payment.failed", 1, 0)),
       SignedWith(WebhookReq("payment.failed", 1, 0),
                  BodyHmac(RAZORPAY_WEBHOOK_SECRET, "payment.failed", 2, 0)),
       NotConfigured(WebhookReq("payment.captured", 1, 2)),
       WebhookReq("order.paid", 1, 2) >>

InitWebhook ==
    /\ InitStore({ << >> }, { JsonFile(TwoRecords) })
    /\ InitPay({ Gateway({}, {}) })
    /\ InitEvent({ TheEvent }, { 1 })
    /\ InitWriter({ << >> })
    /\ InitRequests([t \in Threads |-> WebhookMenu(t)])

SpecWebhook == InitWebhook /\ [][Next]_vars

\* the records of path p after the step are those before it, but for the
\* payment_status and payment_id of the records of order order_id
OnlyPaymentFields(p, order_id) ==
    /\ Len(files'[p].data) = Len(files[p].data)
    /\ \A i \in 1 .. Len(files[p].data) :
           LET a == files[p].data[i]
               b == files'[p].data[i]
           IN  IF a.payment_order_id = order_id
               THEN b = [a EXCEPT !.payment_status = b.payment_status,
                                  !.payment_id = b.payment_id]
               ELSE b = a

\* C32: a step of a webhook request whose signature is wrong or missing, or
\* that finds no webhook secret, writes no file; a step of an authorized
\* one changes only the payment fields of records with the notified order
\* id and leaves every other record of every file as it was, under every
\* interleaving with a submission and a marking.
C32_WebhookWritesOnlyPayment ==
    [][ \A t \in Threads :
            (req[t].kind = "webhook" /\ pc'[t] # pc[t])
            => IF webhook_verdict(req[t]) # "ok"
               THEN files' = files
               ELSE \A p \in Paths : OnlyPaymentFields(p, req[t].order_id)
      ]_vars

\* the first half of C32 alone: unauthorized notifications write no file and
\* are answered 400 or 500
C32_UnauthorizedWritesNothing ==
    [][ \A t \in Threads :
            ( /\ req[t].kind = "webhook" /\ pc'[t] # pc[t]
              /\ webhook_verdict(req[t]) # "ok" )
            => /\ files' = files
               /\ pc'[t] = "done"
               /\ result'[t].status \in { 400, 500 } ]_vars

C32_Rejected ==
    \E t \in Threads :
        /\ req[t].kind = "webhook"
        /\ pc[t] = "done"
        /\ result[t].status = 400
        /\ \E u \in Threads :
               /\ req[u].kind = "webhook" /\ pc[u] = "done"
               /\ result[u].status = 200
               /\ Stored(EventFile)[1].payment_status = "failed"

----------------------------------------------------------------------------
(* data/events.json: submissions that bind the event to its file, admin     *)
(* requests that toggle or archive the event, attendance lookups by event   *)

\* POST /api/register/<event_slug> with event_id 1 in the body, reaching its
\* no-payment commit
SubmitReq(t, event_slug, email) ==
    [ RegisterReq(t, 0, email)
      EXCEPT !.event_id = 1, !.event_slug = event_slug ]

\* POST /admin/events/1/toggle-registration, POST /admin/events/1/delete
AdminReq(kind) ==
    [ Request(kind, 0, NoReg, 0, NoEmail, None, None, 0, 0)
      EXCEPT !.event_id = 1 ]

\* POST /api/attendance/check with event_id 1
LookupReq(regid, email) ==
    [ Request("check", 0, NoReg, regid, email, None, None, 0, 0)
      EXCEPT !.event_id = 1 ]

\* events, next_id = load_events_file()
LoadEvents(t) ==
    /\ pc[t] = "start"
    /\ req[t].event_id # 0
    /\ req[t].kind # "check"
    /\ local_events' = [local_events EXCEPT ![t] = event]
    /\ pc' = [pc EXCEPT ![t] = "loaded"]
    /\ UNCHANGED << files, backups, file_locks, heldLocks, nextLock, req,
                    stage, tf, lk, regs, todo, result, lockOrder, writeVars,
                    nextUuid, orders, payments, call, resp, wrote, mail,
                    echoed, event, today >>

\* api_register_event, lines 1006-1055: the gates of the event, then the
\* file of the event, bound and saved with the whole list if it had none
BindFile(t) ==
    /\ pc[t] = "loaded"
    /\ req[t].kind = "register"
    /\ LET ev == local_events[t]
           Reject(error) ==
               /\ result' = [result EXCEPT ![t] =
                                Response(400, error, NoError, 0)]
               /\ pc' = [pc EXCEPT ![t] = "done"]
               /\ UNCHANGED << stage, tf, event, local_events >>
       IN  IF registration_not_enabled(ev)
           THEN Reject("Registration is not enabled for this event")
           ELSE IF registration_closed(ev)
           THEN Reject("Registration is currently closed for this event")
           ELSE IF DeadlineRejects(ev.registration_deadline, today)
           THEN Reject("Registration deadline has passed")
           ELSE /\ pc' = [pc EXCEPT ![t] = "getlock"]
                /\ stage' = [stage EXCEPT ![t] = "add"]
                /\ UNCHANGED result
                /\ IF ev.registration_file # 0
                   THEN /\ tf' = [tf EXCEPT ![t] = ev.registration_file]
                        /\ UNCHANGED << event, local_events >>
                   ELSE LET reg_file ==
                                reg_filename(
                                    slugify_event(ev, req[t].event_slug),
                                    ev.id)
                            bound == [ev EXCEPT !.registration_file = reg_file]
                        IN  /\ tf' = [tf EXCEPT ![t] = reg_file]
                            /\ local_events' =
                                   [local_events EXCEPT ![t] = bound]
                            /\ event' = bound
    /\ UNCHANGED << files, backups, file_locks, heldLocks, nextLock, req, lk,
                    regs, todo, lockOrder, writeVars, nextUuid, orders,
                    payments, call, resp, wrote, mail, echoed, today >>

\* admin_toggle_registration / api_admin_toggle_registration: the flag of
\* the loaded event negated, the loaded list saved
ToggleSave(t) ==
    /\ pc[t] = "loaded"
    /\ req[t].kind = "toggle"
    /\ local_events' = [local_events EXCEPT
                           ![t].allow_registration = ~ @]
    /\ event' = local_events'[t]
    /\ result' = [result EXCEPT ![t] = Response(200, None, NoError, 0)]
    /\ pc' = [pc EXCEPT ![t] = "done"]
    /\ UNCHANGED << files, backups, file_locks, heldLocks, nextLock, req,
                    stage, tf, lk, regs, todo, lockOrder, writeVars, nextUuid,
                    orders, payments, call, resp, wrote, mail, echoed, today >>

\* admin_delete_event / api_admin_delete_event: the loaded event archived,
\* the loaded list saved
DeleteSave(t) ==
    /\ pc[t] = "loaded"
    /\ req[t].kind = "delete"
    /\ local_events' = [local_events EXCEPT
                           ![t].status = "completed",
                           ![t].registration_type = "none",
                           ![t].allow_registration = FALSE]
    /\ event' = local_events'[t]
    /\ result' = [result EXCEPT ![t] = Response(200, None, NoError, 0)]
    /\ pc' = [pc EXCEPT ![t] = "done"]
    /\ UNCHANGED << files, backups, file_locks, heldLocks, nextLock, req,
                    stage, tf, lk, regs, todo, lockOrder, writeVars, nextUuid,
                    orders, payments, call, resp, wrote, mail, echoed, today >>

EventsMenu(t) ==
    << SubmitReq(t, 1, EmailA),
       SubmitReq(t, 2, EmailACaps),
       SubmitReq(t, 1, EmailC),
       AdminReq("toggle"),
       AdminReq("delete"),
       LookupReq(11, EmailA),
       LookupReq(2, EmailB) >>

\* the event before its first submission, or bound with one registration
InitEvents ==
    /\ \/ /\ InitStore({ << >> }, { AbsentFile })
          /\ InitEvent({ Unbound(TheEvent) }, { 1 })
       \/ /\ InitStore({ << >> }, { JsonFile(<< FreeRecord >>) })
          /\ InitEvent({ TheEvent }, { 1 })
    /\ InitPay({ Gateway({}, {}) })
    /\ InitWriter({ << >> })
    /\ InitRequests([t \in Threads |-> EventsMenu(t)])

NextEvents ==
    \E t \in Threads :
        \/ LoadEvents(t)
        \/ BindFile(t)
        \/ ToggleSave(t)
        \/ DeleteSave(t)
        \/ GetFileLock(t)
        \/ Acquire(t)
        \/ AddRead(t)
        \/ AddCommit(t)
        \/ AttendanceCheck(t)

SpecEvents == InitEvents /\ [][NextEvents]_vars

\* the submission of thread t has passed the gates and resolved its file
Resolved(t) ==
    /\ req[t].kind = "register"
    /\ req[t].event_id # 0
    /\ \/ pc[t] \in { "getlock", "acquire", "add_read", "add_commit", "mail" }
       \/ pc[t] = "done" /\ result[t].error = "Registration failed"
       \/ pc[t] = "done" /\ result[t].status = 200

\* every submission that resolved a file resolved the file the event is
\* bound to, and the same file as every other submission
SameFile ==
    \A s, t \in Threads :
        (Resolved(s) /\ Resolved(t))
        => /\ tf[s] = tf[t]
           /\ event.registration_file \in { 0, tf[t] }

\* no two accepted submissions of the event have the same email, compared
\* stripped and in lower case, and none has the email of a stored record
SeesEarlier ==
    \A s, t \in Threads :
        ( /\ s # t /\ Resolved(s) /\ Resolved(t)
          /\ pc[s] = "done" /\ result[s].status = 200
          /\ pc[t] = "done" /\ result[t].status = 200 )
        => /\ Key(s) # Key(t)
           /\ \E i, j \in 1 .. Len(Stored(tf[t])) :
                  /\ i # j
                  /\ Stored(tf[t])[i].registration_id
                         = req[s].new.registration_id
                  /\ Stored(tf[t])[j].registration_id
                         = req[t].new.registration_id

\* C33: once the event is bound to a registration file, every submission
\* for the event resolves to that file, two concurrent first submissions
\* included, so that the duplicate check of a submission sees the earlier
\* registrations of the event; and no step of a submission changes a binding
\* that exists.
C33_BindingStable ==
    [][ /\ SameFile'
        /\ SeesEarlier'
        /\ \A t \in Threads :
               ( /\ req[t].kind = "register"
                 /\ pc'[t] # pc[t]
                 /\ event.registration_file # 0 )
               => event'.registration_file = event.registration_file
      ]_vars

\* two first submissions accepted into the file of the event and a third,
\* with the email of the first in capitals, rejected as a duplicate
C33_Witness ==
    /\ \A t \in Threads : pc[t] = "done" /\ req[t].kind = "register"
    /\ backups[EventFile].kind = "json"
    /\ Len(backups[EventFile].data) = 1
    /\ Len(Stored(EventFile)) = 2
    /\ event.registration_file = EventFile
    /\ \E t \in Threads :
           /\ result[t].error = "Registration failed"
           /\ req[t].event_slug = 2

\* the step is the save of the archival request of thread t
Archives(t) ==
    /\ req[t].kind = "delete"
    /\ pc[t] = "loaded"
    /\ pc'[t] = "done"

\* a stored registration of the event with the credential and the email of
\* the lookup of thread t
Issued(t) ==
    \E p \in Paths : \E i \in 1 .. Len(Stored(p)) :
        /\ Stored(p)[i].registration_id = req[t].regid
        /\ Lower(Stored(p)[i].submitter_email) = Lower(Strip(req[t].email))

\* C34: the archival keeps the event in the list with status 'completed'
\* and registration disabled, and changes neither its registration_file nor
\* any registration file; a lookup of an archived event with a credential
\* and email that are stored is answered with that record.
C34_ArchivalKeepsRecords ==
    [][ \A t \in Threads :
            /\ Archives(t)
               => /\ event'.id = event.id
                  /\ event'.status = "completed"
                  /\ event'.registration_type = "none"
                  /\ event'.allow_registration = FALSE
                  /\ event'.registration_file = event.registration_file
                  /\ files' = files
            /\ ( /\ req[t].kind = "check" /\ req[t].event_id # 0
                 /\ pc[t] = "start" /\ pc'[t] = "done"
                 /\ event.status = "completed"
                 /\ Issued(t) )
               => /\ result'[t].status = 200
                  /\ result'[t].registration_id = req[t].regid
      ]_vars

\* the same for an archival that loaded the list after the binding was
\* saved, and for a lookup of an event that is bound
C34_WhenBoundBeforeLoad ==
    [][ \A t \in Threads :
            /\ ( /\ Archives(t)
                 /\ local_events[t].registration_file
                        = event.registration_file )
               => /\ event'.id = event.id
                  /\ event'.status = "completed"
                  /\ event'.registration_type = "none"
                  /\ event'.allow_registration = FALSE
                  /\ event'.registration_file = event.registration_file
                  /\ files' = files
            /\ ( /\ req[t].kind = "check" /\ req[t].event_id # 0
                 /\ pc[t] = "start" /\ pc'[t] = "done"
                 /\ event.status = "completed"
                 /\ event.registration_file # 0
                 /\ Issued(t) )
               => /\ result'[t].status = 200
                  /\ result'[t].registration_id = req[t].regid
      ]_vars

\* a lookup answered after the archival of the bound event
C34_LookupAfterArchival ==
    \E s, t \in Threads :
        /\ req[s].kind = "delete" /\ pc[s] = "done"
        /\ req[t].kind = "check" /\ pc[t] = "done"
        /\ event.status = "completed"
        /\ event.registration_file = EventFile
        /\ result[t].status = 200

\* C36: a step of a submission changes no field of the event in
\* events.json other than registration_file, so an admin's update of
\* allow_registration saved before it is still in the list after it.
C36_OnlyBindingChanged ==
    [][ \A t \in Threads :
            (req[t].kind = "register" /\ pc'[t] # pc[t])
            => event' = [event EXCEPT
                            !.registration_file = event'.registration_file]
      ]_vars

\* the same for a submission whose loaded list is still the saved one
C36_WhenListIsCurrent ==
    [][ \A t \in Threads :
            ( /\ req[t].kind = "register" /\ pc'[t] # pc[t]
              /\ pc[t] = "loaded" => local_events[t] = event )
            => event' = [event EXCEPT
                            !.registration_file = event'.registration_file]
      ]_vars

\* a submission bound the event after an admin request had been served
C36_BoundAfterToggle ==
    \E s, t \in Threads :
        /\ req[s].kind = "toggle" /\ pc[s] = "done"
        /\ req[t].kind = "register" /\ pc[t] = "getlock"
        /\ event.registration_file # 0
        /\ ~ event.allow_registration
        /\ files[EventFile] = AbsentFile

----------------------------------------------------------------------------
(* The record store with the lock of the lock table told apart, every exit  *)
(* of its three operations, and fair scheduling                             *)

\* _file_locks_lock = threading.Lock(), as a member of heldLocks
_file_locks_lock == 0

\* get_file_lock: `with _file_locks_lock:` entered
EnterTable(t) ==
    /\ pc[t] = "getlock"
    /\ ~ locked(_file_locks_lock, heldLocks)
    /\ heldLocks' = heldLocks \cup { _file_locks_lock }
    /\ pc' = [pc EXCEPT ![t] = "table"]
    /\ UNCHANGED << file_locks, nextLock, files, backups, req, stage, tf, lk,
                    regs, todo, result, lockOrder >>
    /\ UNCHANGED << payVars, writeVars >>

\* get_file_lock: the body and the return, which leaves _file_locks_lock
LeaveTable(t) ==
    /\ pc[t] = "table"
    /\ file_locks' = TableAfterGet(file_locks, tf[t], heldLocks, nextLock)
    /\ lk' = [lk EXCEPT ![t] = LockOf(file_locks', tf[t])]
    /\ nextLock' = IF lk'[t] = nextLock THEN nextLock + 1 ELSE nextLock
    /\ heldLocks' = heldLocks \ { _file_locks_lock }
    /\ pc' = [pc EXCEPT ![t] = "acquire"]
    /\ UNCHANGED << files, backups, req, stage, tf, regs, todo, result,
                    lockOrder >>
    /\ UNCHANGED << payVars, writeVars >>

\* safe_json_write: _write_json_no_lock entered with the lock held
SafeWriteStart(t) ==
    /\ pc[t] = "wr"
    /\ wpc = "idle"
    /\ wdata' = regs[t]
    /\ old' = files[tf[t]]
    /\ tmp' = 0
    /\ wpc' = IF files[tf[t]].kind # "absent" THEN "backup" ELSE "mkstemp"
    /\ pc' = [pc EXCEPT ![t] = "wr_write"]
    /\ UNCHANGED << file_locks, heldLocks, nextLock, files, backups, req,
                    stage, tf, lk, regs, todo, result, lockOrder >>
    /\ UNCHANGED payVars

\* safe_json_write: the write returned, or raised through `with lock:` to
\* the handler, which answers 500
SafeWriteReturn(t) ==
    /\ pc[t] = "wr_write"
    /\ wpc \in { "done", "raised" }
    /\ result' = [result EXCEPT ![t] =
           IF wpc = "raised"
           THEN Response(500, "Internal Server Error", NoError, 0)
           ELSE Response(200, None, NoError, 0)]
    /\ heldLocks' = heldLocks \ {lk[t]}
    /\ pc' = [pc EXCEPT ![t] = "done"]
    /\ wpc' = "idle"
    /\ UNCHANGED << file_locks, nextLock, files, backups, req, stage, tf, lk,
                    regs, todo, lockOrder >>
    /\ UNCHANGED << payVars, wdata, tmp, old >>

\* the threads that serve a request here; the others are idle
NLive == 2
Workers == 1 .. NLive

\* a submission of a stored email, a submission of a new one, a marking
LiveMenu(t) ==
    << RegisterReq(t, EventFile, EmailACaps),
       RegisterReq(t, EventFile, EmailC),
       MarkReq(1, EmailA, "full") >>

\* the file parseable, cut short, or not text
InitLive ==
    /\ InitThreads({ << >> })
    /\ \E c \in { JsonFile(<< PaidRecord >>), PartFile(<< PaidRecord >>),
                   UndecodableFile } :
          /\ files = [p \in Paths \cup {TempName} |->
                         IF p = EventFile THEN c ELSE AbsentFile]
          /\ backups = [p \in Paths |-> AbsentFile]
    /\ InitPay({ Gateway({}, {}) })
    /\ InitEvent({ TheEvent }, { 1 })
    /\ InitWriter({ << >> })
    /\ \E a \in [Workers -> 1 .. Len(LiveMenu(1))] :
          /\ \A i, j \in Workers : i < j => a[i] <= a[j]
          /\ req = [t \in Threads |->
                       LiveMenu(t)[IF t \in Workers THEN a[t] ELSE 1]]

ThreadStep(t) ==
    \/ Begin(t)
    \/ EnterTable(t)
    \/ LeaveTable(t)
    \/ Acquire(t)
    \/ AddRead(t)
    \/ AddCommit(t)
    \/ AddWrite(t)
    \/ AddReturn(t)
    \/ MarkRead(t)
    \/ SafeWriteStart(t)
    \/ SafeWriteReturn(t)

\* the file-system calls of the write in progress
WriterStep ==
    \/ \E ok \in BOOLEAN : BackupCopy(EventFile, ok)
    \/ \E ok \in BOOLEAN : MakeTemp(EventFile, ok)
    \/ \E ok \in BOOLEAN : Dump(ok)
    \/ \E ok \in BOOLEAN : Rename(EventFile, ok)
    \/ RemoveTemp

NextLive == WriterStep \/ \E t \in Workers : ThreadStep(t)

\* every thread that can take a step is scheduled, and every file-system
\* call returns or raises
SpecLive ==
    /\ InitLive
    /\ [][NextLive]_vars
    /\ \A t \in Workers : WF_vars(ThreadStep(t))
    /\ WF_vars(WriterStep)

\* every request has been answered
LiveDone == \A t \in Workers : pc[t] = "done"

\* thread t is inside `with lock:` of the lock get_file_lock returned to it
InsideWith(t) ==
    pc[t] \in { "add_read", "add_commit", "add_write", "rd", "wr", "wr_write" }

\* the locks that are held are those of the threads inside a `with`: an
\* operation that has left holds none, no thread is inside two, and a thread
\* that waits for a file lock is not inside `with _file_locks_lock:`
LocksAccounted ==
    /\ heldLocks = { lk[t] : t \in { u \in Threads : InsideWith(u) } }
                       \cup { _file_locks_lock :
                                t \in { u \in Threads : pc[u] = "table" } }
    /\ \A s, t \in Threads :
           (s # t /\ InsideWith(s) /\ InsideWith(t)) => lk[s] # lk[t]
    /\ \A s, t \in Threads :
           (pc[s] = "table" /\ pc[t] = "table") => s = t
    /\ \A t \in Threads : InsideWith(t) => lk[t] # _file_locks_lock

\* C35: every operation of the record store leaves its file lock on every
\* exit (success, duplicate, read error, write exception), none takes a
\* lock it holds or waits for a file lock inside the lock of the table, and
\* under fair scheduling every request is answered: no deadlock.
C35_LocksReleasedAndDone ==
    /\ []LocksAccounted
    /\ <>[]LiveDone

\* all requests answered and no lock held, after a write that raised and a
\* duplicate found in the file that the first request had waited for
C35_Witness ==
    /\ LiveDone
    /\ heldLocks = {}
    /\ \E s, t \in Workers :
           /\ result[s].error = "Registration failed"
           /\ result[s].details.msg = "Failed to save registration"
           /\ result[t].error = "Registration failed"
           /\ result[t].details.msg # "Failed to save registration"
           /\ lockOrder = << t, s >>

----------------------------------------------------------------------------
(* Submissions to a file that the last writer did not leave, with a backup *)

RecoverMenu(t) ==
    << RegisterReq(t, EventFile, EmailACaps),
       RegisterReq(t, EventFile, EmailC) >>

InitRecover ==
    /\ InitThreads({ << >> })
    /\ \E c \in ReadContents, b \in ReadBackups :
          /\ files = [p \in Paths \cup {TempName} |->
                         IF p = EventFile THEN c ELSE AbsentFile]
          /\ backups = [p \in Paths |->
                           IF p = EventFile THEN b ELSE AbsentFile]
    /\ InitPay({ Gateway({}, {}) })
    /\ InitEvent({ TheEvent }, { 1 })
    /\ InitWriter({ << >> })
    /\ InitRequests([t \in Threads |-> RecoverMenu(t)])

SpecRecover == InitRecover /\ [][NextAppend]_vars

\* the step is an append of thread t to a primary file that does not parse
\* while its backup holds a list
AppendsToUnparseable(t) ==
    /\ pc[t] = "add_commit"
    /\ pc'[t] # "add_commit"
    /\ files' # files
    /\ files[tf[t]].kind = "bad"
    /\ backups[tf[t]].kind = "json"

\* C37: an append to an unparseable primary file whose backup is a valid
\* list keeps every record of the backup in the stored list, gives the new
\* record an id after theirs, and leaves a valid list in the backup.
C37_BackupRecordsKept ==
    [][ \A t \in Threads :
            AppendsToUnparseable(t)
            => /\ \A i \in 1 .. Len(backups[tf[t]].data) :
                      \E j \in 1 .. Len(files'[tf[t]].data) :
                          files'[tf[t]].data[j].registration_id
                              = backups[tf[t]].data[i].registration_id
               /\ files'[tf[t]].data[Len(files'[tf[t]].data)].id
                      = Len(backups[tf[t]].data) + 1
               /\ backups'[tf[t]].kind = "json"
      ]_vars

\* what the code does instead: the list starts empty, the new record gets
\* id 1, and the unparseable file is copied over the backup
C37_StartsOver ==
    [][ \A t \in Threads :
            AppendsToUnparseable(t)
            => /\ Len(files'[tf[t]].data) = 1
               /\ files'[tf[t]].data[1].id = 1
               /\ backups'[tf[t]] = files[tf[t]]
      ]_vars

C37_Appended ==
    \E t \in Threads :
        /\ pc[t] = "done"
        /\ result[t].status = 200
        /\ backups[EventFile] = PartFile(TwoRecords)
        /\ Len(Stored(EventFile)) = 1

----------------------------------------------------------------------------
(* One payment, one registration *)

\* the records stored with a payment, as << path, index >>
PaidRecords ==
    { x \in Paths \X (1 .. 4) :
        /\ x[2] <= Len(Stored(x[1]))
        /\ Stored(x[1])[x[2]].payment_id # 0 }

\* C38: across all registration files no two stored records carry the same
\* payment_id, whatever registration_file and registration_data the
\* verification calls send with the payment.
C38_OnePaymentOneRecord ==
    \A x, y \in PaidRecords :
        Stored(x[1])[x[2]].payment_id = Stored(y[1])[y[2]].payment_id
        => x = y

\* the part the code keeps: within one file no two records carry the same
\* payment_id
C38_OncePerFile ==
    \A x, y \in PaidRecords :
        ( /\ x[1] = y[1]
          /\ Stored(x[1])[x[2]].payment_id = Stored(y[1])[y[2]].payment_id )
        => x = y

\* a second verification of a stored payment for the same file was refused
C38_SecondRefused ==
    /\ call.endpoint = "verify"
    /\ resp.error = "Payment already processed"
    /\ \E x \in PaidRecords :
           /\ x[1] = call.registration_file
           /\ Stored(x[1])[x[2]].payment_id = call.razorpay_payment_id

----------------------------------------------------------------------------
(* A completed payment stays completed *)

\* C39: a stored registration whose payment_status is 'completed' has
\* payment_status 'completed' in every later state in which it is stored,
\* whatever notifications and requests are served after it.
C39_CompletedStays ==
    [][ \A p \in Paths :
            \A i \in 1 .. Len(files[p].data), j \in 1 .. Len(files'[p].data) :
                ( /\ files[p].data[i].payment_status = "completed"
                  /\ files'[p].data[j].registration_id
                         = files[p].data[i].registration_id )
                => files'[p].data[j].payment_status = "completed"
      ]_vars

\* the same for the steps that are not the safe_json_write of a webhook or
\* of a marking: an append leaves the stored records as they are
C39_AppendsKeepCompleted ==
    [][ (\A t \in Threads : ~ (pc[t] = "wr" /\ pc'[t] = "done"))
        => \A p \in Paths :
            \A i \in 1 .. Len(files[p].data) :
                /\ i <= Len(files'[p].data)
                /\ files'[p].data[i] = files[p].data[i]
      ]_vars

\* a payment.captured notification written after a payment.failed one
C39_CapturedAfterFailed ==
    \E s, t \in Threads :
        /\ req[s].kind = "webhook" /\ req[s].event_type = "payment.failed"
        /\ req[t].kind = "webhook" /\ req[t].event_type = "payment.captured"
        /\ pc[s] = "done" /\ pc[t] = "done"
        /\ result[s].status = 200 /\ result[t].status = 200
        /\ lockOrder = << s, s, t, t >>
        /\ Stored(EventFile)[1].payment_status = "completed"
        /\ Stored(EventFile)[1].payment_id = 2

====
